---------------------------- MODULE Spec2Model ----------------------------
(***************************************************************************)
(* A model of the statement engine of oci_rs: Statement (bind, execute,    *)
(* result_set, lazy_result_set, commit, drop), RowIter, the row-fetch step *)
(* build_result_row with its Column descriptors, and the part of the       *)
(* SqlValue codec the fetch step uses.  The native call layer (the extern  *)
(* OCI functions) is the environment: every status it returns is an input  *)
(* of the action that issues the call.                                     *)
(***************************************************************************)
EXTENDS Integers, Sequences, FiniteSets, TLC

(***************************************************************************)
(* Bounds of the model.                                                    *)
(***************************************************************************)
MaxRows == 2        \* rows the server holds for the query
MaxCols == 2        \* columns of the select list
MaxParams == 2      \* parameters of one bind call
MaxBindings == 3    \* total bind-handle slots before bind is no longer called

(***************************************************************************)
(* Program constants (oci_bindings.rs).                                    *)
(***************************************************************************)
SQLT_CHR == 1
SQLT_NUM == 2
SQLT_INT == 3
SQLT_FLT == 4
SQLT_DAT == 12
SQLT_AFC == 96
SQLT_TIMESTAMP == 187
SQLT_TIMESTAMP_TZ == 188
OCI_STMT_UNKNOWN == 0
OCI_STMT_SELECT == 1
OCI_STMT_UPDATE == 2
OCI_STMT_DELETE == 3
OCI_STMT_INSERT == 4
OCI_STMT_CREATE == 5
OCI_STMT_DROP == 6
OCI_STMT_ALTER == 7
OCI_STMT_BEGIN == 8
OCI_STMT_DECLARE == 9
NullIndicator == -1
FloatScale == -127

\* ReturnCode: the closed set of statuses of the native layer.
ReturnCode == {"Success", "Error", "NoData", "InvalidHandle"}

\* From<c_ushort> for OciDataType ("Panic" models the panic! arm).
OciDataTypeFrom(number) ==
    CASE number = SQLT_CHR -> "SqlVarChar"
      [] number = SQLT_INT -> "SqlInt"
      [] number = SQLT_NUM -> "SqlNum"
      [] number = SQLT_FLT -> "SqlFloat"
      [] number = SQLT_DAT -> "SqlDate"
      [] number = SQLT_AFC -> "SqlChar"
      [] number = SQLT_TIMESTAMP -> "SqlTimestamp"
      [] number = SQLT_TIMESTAMP_TZ -> "SqlTimestampTz"
      [] OTHER -> "Panic"

\* From<c_uint> for StatementType ("Panic" models the panic! arm).
StatementTypeFrom(number) ==
    CASE number = OCI_STMT_UNKNOWN -> "Unknown"
      [] number = OCI_STMT_SELECT -> "Select"
      [] number = OCI_STMT_UPDATE -> "Update"
      [] number = OCI_STMT_DELETE -> "Delete"
      [] number = OCI_STMT_INSERT -> "Insert"
      [] number = OCI_STMT_CREATE -> "Create"
      [] number = OCI_STMT_DROP -> "Drop"
      [] number = OCI_STMT_ALTER -> "Alter"
      [] number = OCI_STMT_BEGIN -> "Begin"
      [] number = OCI_STMT_DECLARE -> "Declare"
      [] OTHER -> "Panic"

\* OciDataType::size
OciDataTypeSize(data_type) ==
    CASE data_type = "SqlVarChar" -> 4000
      [] data_type \in {"SqlInt", "SqlNum", "SqlFloat"} -> 8
      [] data_type = "SqlDate" -> 7
      [] data_type = "SqlChar" -> 2000
      [] data_type = "SqlTimestamp" -> 11
      [] data_type = "SqlTimestampTz" -> 13

(***************************************************************************)
(* The codec, as far as the fetch step uses it (types.rs).                 *)
(***************************************************************************)
RECURSIVE Horner(_, _, _)
\* Big end first accumulation of bytes b[1..i] read as little-endian.
Horner(b, i, acc) ==
    IF i = 0 THEN acc ELSE Horner(b, i - 1, acc * 256 + b[i])

\* A read of the two low bytes only.
ReadI64_low(data) == data[1] + 256 * data[2]

\* LittleEndian::read_i64 on the first 8 bytes (two's complement).
ReadI64(data) ==
    IF data[8] >= 128
    THEN -(Horner([i \in 1..8 |-> 255 - data[i]], 8, 0) + 1)
    ELSE Horner(data, 8, 0)

\* String::from_utf8 restricted to buffers over single-byte characters and
\* the byte 255, which no well-formed text contains.
IsUtf8(data) == \A i \in 1..Len(data) : data[i] < 128

\* char::is_whitespace on single-byte characters.
IsWhitespace(c) == c = 32 \/ c \in 9..13

RECURSIVE TrimStart(_)
TrimStart(s) ==
    IF s # <<>> /\ IsWhitespace(Head(s)) THEN TrimStart(Tail(s)) ELSE s

RECURSIVE TrimEnd(_)
TrimEnd(s) ==
    IF s # <<>> /\ IsWhitespace(s[Len(s)])
    THEN TrimEnd(SubSeq(s, 1, Len(s) - 1))
    ELSE s

\* str::trim: leading and trailing whitespace removed.
Trim(s) == TrimEnd(TrimStart(s))

\* i32 division, which truncates toward zero (b > 0).
Quot(a, b) == IF a >= 0 THEN a \div b ELSE -((-a) \div b)

\* `as u8`: the low 8 bits.
AsU8(n) == n % 256

RECURSIVE ToBytesLE(_, _)
\* The n low bytes of the two's complement of v, little end first: the
\* bytes of an integer in the memory of a little-endian target.
ToBytesLE(v, n) ==
    IF n = 0 THEN <<>> ELSE <<v % 256>> \o ToBytesLE(v \div 256, n - 1)

convert_century(century_byte) == (century_byte - 100) * 100

convert_year_to_century_raw(year) == AsU8(Quot(year, 100) + 100)

convert_year(year_byte) == year_byte - 100

convert_year_to_raw(year) == AsU8((year - Quot(year, 100) * 100) + 100)

convert_month(month_byte) == month_byte

convert_day(day_byte) == day_byte

\* convert_hour, convert_minute, convert_second: for the byte 0 the u32
\* subtraction overflows; -1 here is no hour, minute or second either.
convert_hour(hour_byte) == hour_byte - 1

convert_hour_to_raw(hour) == AsU8(hour + 1)

convert_minute(minute_byte) == minute_byte - 1

convert_minute_to_raw(minute) == AsU8(minute + 1)

convert_second(second_byte) == second_byte - 1

convert_second_to_raw(second) == AsU8(second + 1)

\* BigEndian::read_u32.  Every value from 2^31 on is no nanosecond count;
\* the model reads them all as 2000000000, the least count that is none.
convert_nano(nano_bytes) ==
    IF nano_bytes[1] >= 128
    THEN 2000000000
    ELSE ((nano_bytes[1] * 256 + nano_bytes[2]) * 256 + nano_bytes[3]) * 256
         + nano_bytes[4]

\* BigEndian::write_u32
convert_nano_to_raw(nano) ==
    <<(nano \div 16777216) % 256, (nano \div 65536) % 256,
      (nano \div 256) % 256, nano % 256>>

convert_timezone_hour(timezone_hour_byte) == timezone_hour_byte - 20

convert_timezone_seconds_to_hour_raw(timezone_seconds) ==
    AsU8(Quot(timezone_seconds, 3600) + 20)

convert_timezone_minute(timezone_minute_byte) == timezone_minute_byte - 60

convert_timezone_seconds_to_minute_raw(timezone_seconds) ==
    AsU8(Quot(timezone_seconds - Quot(timezone_seconds, 3600) * 3600, 60) + 60)

\* The calendar of the native date type: proleptic Gregorian, years
\* -262144..262143.
IsLeapYear(year) ==
    year % 4 = 0 /\ (year % 100 # 0 \/ year % 400 = 0)

DaysInMonth(year, month) ==
    CASE month \in {4, 6, 9, 11} -> 30
      [] month = 2 -> IF IsLeapYear(year) THEN 29 ELSE 28
      [] OTHER -> 31

\* Utc.ymd(year, month, day) does not panic.
ValidDate(year, month, day) ==
    /\ year \in -262144..262143
    /\ month \in 1..12
    /\ day \in 1..DaysInMonth(year, month)

\* and_hms / and_hms_nano does not panic.
ValidTime(hour, minute, second, nano) ==
    /\ hour \in 0..23
    /\ minute \in 0..59
    /\ second \in 0..59
    /\ nano \in 0..1999999999

\* FixedOffset::east(seconds) does not panic.
ValidOffset(seconds) == seconds \in -86399..86399

\* create_datetime_from_raw: a DateTime<Utc> as <<year, month, day, hour,
\* minute, second, nanosecond>>, or a panic of the date constructors.
create_datetime_from_raw(data) ==
    LET built(year, month, day, hour, minute, second, nano) ==
            [panic |-> ~(ValidDate(year, month, day)
                         /\ ValidTime(hour, minute, second, nano)),
             v |-> <<year, month, day, hour, minute, second, nano>>]
    IN  built(convert_century(data[1]) + convert_year(data[2]),
              convert_month(data[3]), convert_day(data[4]),
              convert_hour(data[5]), convert_minute(data[6]),
              convert_second(data[7]),
              IF Len(data) <= 7 THEN 0
              ELSE convert_nano(SubSeq(data, 8, 11)))

\* create_raw_from_date on a Date<Utc> <<year, month, day>>.
create_raw_from_date(date) ==
    <<convert_year_to_century_raw(date[1]), convert_year_to_raw(date[1]),
      AsU8(date[2]), AsU8(date[3]),
      convert_hour_to_raw(0), convert_minute_to_raw(0),
      convert_second_to_raw(0)>>

\* create_raw_from_datetime on a DateTime<Utc>.
create_raw_from_datetime(datetime) ==
    <<convert_year_to_century_raw(datetime[1]),
      convert_year_to_raw(datetime[1]),
      AsU8(datetime[2]), AsU8(datetime[3]),
      convert_hour_to_raw(datetime[4]), convert_minute_to_raw(datetime[5]),
      convert_second_to_raw(datetime[6])>>
    \o convert_nano_to_raw(datetime[7])

\* create_datetime_with_timezone_from_raw: a DateTime<FixedOffset> as the
\* UTC instant followed by the offset in seconds (local minus UTC).
create_datetime_with_timezone_from_raw(data) ==
    LET zoned(utc_dt, seconds) ==
            [panic |-> utc_dt.panic \/ ~ValidOffset(seconds),
             v |-> utc_dt.v \o <<seconds>>]
    IN  zoned(create_datetime_from_raw(SubSeq(data, 1, 11)),
              convert_timezone_hour(data[12]) * 3600
              + convert_timezone_minute(data[13]) * 60)

\* create_raw_from_datetime_with_timezone: the UTC instant, then the offset.
create_raw_from_datetime_with_timezone(datetime) ==
    create_raw_from_datetime(SubSeq(datetime, 1, 7))
    \o <<convert_timezone_seconds_to_hour_raw(datetime[8]),
          convert_timezone_seconds_to_minute_raw(datetime[8])>>

SqlNull == [variant |-> "Null", v |-> <<>>]

\* A decoder that takes every buffer of a text column for text.
create_from_raw_lossy(data, sql_type) ==
    CASE sql_type = "SqlVarChar" ->
            [ok |-> TRUE, panic |-> FALSE,
             value |-> [variant |-> "VarChar", v |-> Trim(data)]]
      [] sql_type = "SqlChar" ->
            [ok |-> TRUE, panic |-> FALSE,
             value |-> [variant |-> "Char", v |-> data]]
      [] OTHER ->
            [ok |-> TRUE, panic |-> FALSE,
             value |-> [variant |-> "Integer", v |-> <<ReadI64(data)>>]]

\* A decoder that keeps the bytes it was given as the raw bytes of a
\* temporal value.
create_from_raw_copy(data, sql_type) ==
    LET out(ok, panic, value) == [ok |-> ok, panic |-> panic, value |-> value]
        date(datetime) ==
            out(TRUE, datetime.panic,
                [variant |-> "Date", v |-> SubSeq(datetime.v, 1, 3),
                 raw |-> data])
        timestamp(datetime) ==
            out(TRUE, datetime.panic,
                [variant |-> "Timestamp", v |-> datetime.v, raw |-> data])
        timestamp_tz(datetime_tz) ==
            out(TRUE, datetime_tz.panic,
                [variant |-> "TimestampTz", v |-> datetime_tz.v,
                 raw |-> data])
    IN  CASE sql_type = "SqlVarChar" ->
                IF IsUtf8(data)
                THEN out(TRUE, FALSE, [variant |-> "VarChar", v |-> Trim(data)])
                ELSE out(FALSE, FALSE, SqlNull)
          [] sql_type = "SqlChar" ->
                IF IsUtf8(data)
                THEN out(TRUE, FALSE, [variant |-> "Char", v |-> data])
                ELSE out(FALSE, FALSE, SqlNull)
          [] sql_type = "SqlInt" ->
                out(TRUE, FALSE,
                    [variant |-> "Integer", v |-> <<ReadI64(data)>>])
          [] sql_type = "SqlFloat" ->
                out(TRUE, FALSE,
                    [variant |-> "Float", v |-> SubSeq(data, 1, 8)])
          [] sql_type = "SqlDate" -> date(create_datetime_from_raw(data))
          [] sql_type = "SqlTimestamp" ->
                timestamp(create_datetime_from_raw(data))
          [] sql_type = "SqlTimestampTz" ->
                timestamp_tz(create_datetime_with_timezone_from_raw(data))
          [] OTHER -> out(FALSE, TRUE, SqlNull)

\* SqlValue::create_from_raw.  ok = FALSE is Err(OciError::Conversion),
\* panic = TRUE a panic of the decoder.  A temporal value carries its raw
\* bytes beside the native value.
create_from_raw(data, sql_type) ==
    LET out(ok, panic, value) == [ok |-> ok, panic |-> panic, value |-> value]
        date(datetime) ==
            out(TRUE, datetime.panic,
                [variant |-> "Date", v |-> SubSeq(datetime.v, 1, 3),
                 raw |-> create_raw_from_date(SubSeq(datetime.v, 1, 3))])
        timestamp(datetime) ==
            out(TRUE, datetime.panic,
                [variant |-> "Timestamp", v |-> datetime.v,
                 raw |-> create_raw_from_datetime(datetime.v)])
        timestamp_tz(datetime_tz) ==
            out(TRUE, datetime_tz.panic,
                [variant |-> "TimestampTz", v |-> datetime_tz.v,
                 raw |-> create_raw_from_datetime_with_timezone(datetime_tz.v)])
    IN  CASE sql_type = "SqlVarChar" ->
                IF IsUtf8(data)
                THEN out(TRUE, FALSE, [variant |-> "VarChar", v |-> Trim(data)])
                ELSE out(FALSE, FALSE, SqlNull)
          [] sql_type = "SqlChar" ->
                IF IsUtf8(data)
                THEN out(TRUE, FALSE, [variant |-> "Char", v |-> data])
                ELSE out(FALSE, FALSE, SqlNull)
          [] sql_type = "SqlInt" ->
                out(TRUE, FALSE,
                    [variant |-> "Integer", v |-> <<ReadI64(data)>>])
          [] sql_type = "SqlFloat" ->
                out(TRUE, FALSE,
                    [variant |-> "Float", v |-> SubSeq(data, 1, 8)])
          [] sql_type = "SqlDate" -> date(create_datetime_from_raw(data))
          [] sql_type = "SqlTimestamp" ->
                timestamp(create_datetime_from_raw(data))
          [] sql_type = "SqlTimestampTz" ->
                timestamp_tz(create_datetime_with_timezone_from_raw(data))
          [] OTHER -> out(FALSE, TRUE, SqlNull)

\* A conversion that makes a Null of every parameter.
to_sql_value_null(param) == [variant |-> "Null", v |-> <<>>]

\* ToSqlValue for i64, f64 (its 8 bytes), String, Date<Utc>, DateTime<Utc>
\* and DateTime<FixedOffset>: the native parameters the model binds.
to_sql_value(param) ==
    CASE param.t = "i64" -> [variant |-> "Integer", v |-> param.v]
      [] param.t = "f64" -> [variant |-> "Float", v |-> param.v]
      [] param.t = "Date" ->
            [variant |-> "Date", v |-> param.v,
             raw |-> create_raw_from_date(param.v)]
      [] param.t = "DateTime" ->
            [variant |-> "Timestamp", v |-> param.v,
             raw |-> create_raw_from_datetime(param.v)]
      [] param.t = "DateTimeTz" ->
            [variant |-> "TimestampTz", v |-> param.v,
             raw |-> create_raw_from_datetime_with_timezone(param.v)]
      [] OTHER -> [variant |-> "VarChar", v |-> param.v]

\* SqlValue::as_oci_ptr: the bytes at the pointer the native layer is given
\* (an Integer lies in memory as the target lays out an i64: little end
\* first on the targets the model covers).  <<-1>> models the panic for Null.
as_oci_ptr(sql_value) ==
    CASE sql_value.variant \in {"VarChar", "Char", "Float"} -> sql_value.v
      [] sql_value.variant = "Integer" -> ToBytesLE(sql_value.v[1], 8)
      [] sql_value.variant \in {"Date", "Timestamp", "TimestampTz"} ->
            sql_value.raw
      [] OTHER -> <<-1>>

\* SqlValue::size (-1 models the panic for Null).
size(sql_value) ==
    CASE sql_value.variant \in {"VarChar", "Char"} -> Len(sql_value.v)
      [] sql_value.variant \in {"Integer", "Float"} -> 8
      [] sql_value.variant = "Date" -> 7
      [] sql_value.variant = "Timestamp" -> 11
      [] sql_value.variant = "TimestampTz" -> 13
      [] OTHER -> -1

\* SqlValue::as_oci_data_type
as_oci_data_type(sql_value) ==
    CASE sql_value.variant = "VarChar" -> "SqlVarChar"
      [] sql_value.variant = "Char" -> "SqlChar"
      [] sql_value.variant = "Integer" -> "SqlInt"
      [] sql_value.variant = "Float" -> "SqlFloat"
      [] sql_value.variant = "Date" -> "SqlDate"
      [] sql_value.variant = "Timestamp" -> "SqlTimestamp"
      [] sql_value.variant = "TimestampTz" -> "SqlTimestampTz"
      [] OTHER -> "Panic"

RECURSIVE Digits(_)
\* The decimal digits of n >= 0, as characters.
Digits(n) ==
    IF n < 10 THEN <<48 + n>> ELSE Digits(n \div 10) \o <<48 + (n % 10)>>

\* format!("{}", i) of an i64.
DecimalText(i) == IF i < 0 THEN <<45>> \o Digits(-i) ELSE Digits(i)

\* A conversion that hands out the payload of whatever variant it is given.
from_sql_value_any(target, sql_value) == [some |-> TRUE, v |-> sql_value.v]

\* FromSqlValue::from_sql_value for the target types String, i64, f64,
\* Date<Utc>, DateTime<Utc> and DateTime<FixedOffset>: some = FALSE is None.
\* The text of a Float or of a temporal value is kept as the character 0
\* followed by the fields that Display prints.
from_sql_value(target, sql_value) ==
    LET Some(v) == [some |-> TRUE, v |-> v]
        None == [some |-> FALSE, v |-> <<>>]
        own(variant) ==
            IF sql_value.variant = variant THEN Some(sql_value.v) ELSE None
    IN  CASE target = "String" ->
                CASE sql_value.variant \in {"VarChar", "Char"} ->
                        Some(sql_value.v)
                  [] sql_value.variant = "Integer" ->
                        Some(DecimalText(sql_value.v[1]))
                  [] sql_value.variant = "Null" -> Some(<<110, 117, 108, 108>>)
                  [] OTHER -> Some(<<0>> \o sql_value.v)
          [] target = "i64" -> own("Integer")
          [] target = "f64" -> own("Float")
          [] target = "Date" -> own("Date")
          [] target = "DateTime" -> own("Timestamp")
          [] target = "DateTimeTz" -> own("TimestampTz")

\* SqlValue::value::<T>()
SqlValue_value(sql_value, target) == from_sql_value(target, sql_value)


(***************************************************************************)
(* Errors of the server (oci_error.rs).  A text is the sequence of its     *)
(* characters.                                                             *)
(***************************************************************************)
\* "\nError number: "
ErrorNumberLabel ==
    <<10, 69, 114, 114, 111, 114, 32, 110, 117, 109, 98, 101, 114, 58, 32>>

\* "\nError code: ORA-"
ErrorCodeLabel ==
    <<10, 69, 114, 114, 111, 114, 32, 99, 111, 100, 101, 58, 32, 79, 82,
      65, 45>>

\* "\nError text "
ErrorTextLabel ==
    <<10, 69, 114, 114, 111, 114, 32, 116, 101, 120, 116, 32>>

\* "Call to OCIErrorGet failed"
ErrorGetFailedText ==
    <<67, 97, 108, 108, 32, 116, 111, 32, 79, 67, 73, 69, 114, 114, 111,
      114, 71, 101, 116, 32, 102, 97, 105, 108, 101, 100>>

\* "Invalid handle used to get errors"
InvalidHandleText ==
    <<73, 110, 118, 97, 108, 105, 100, 32, 104, 97, 110, 100, 108, 101, 32,
      117, 115, 101, 100, 32, 116, 111, 32, 103, 101, 116, 32, 101, 114,
      114, 111, 114, 115>>

\* ErrorRecord::new and ErrorRecord::add_error
ErrorRecord_new(description) == [description |-> description, records |-> <<>>]

add_error(error_record, code, description) ==
    [error_record EXCEPT !.records = Append(@, <<code, description>>)]

RECURSIVE get_error_loop(_, _, _)
\* The loop of get_error from record number record_nmb on.  replies are the
\* answers of OCIErrorGet to the record numbers 1, 2, ...; past the last of
\* them it answers NoData.
get_error_loop(error_record, replies, record_nmb) ==
    IF record_nmb > Len(replies)
    THEN error_record
    ELSE get_error_loop(
             CASE replies[record_nmb].status = "Success" ->
                     add_error(error_record, replies[record_nmb].code,
                               replies[record_nmb].message)
               [] replies[record_nmb].status = "Error" ->
                     add_error(error_record, replies[record_nmb].code,
                               ErrorGetFailedText)
               [] OTHER ->
                     add_error(error_record, replies[record_nmb].code,
                               InvalidHandleText),
             replies, record_nmb + 1)

\* get_error: OciError::Oracle of the records OCIErrorGet hands out.
get_error(description, replies) ==
    get_error_loop(ErrorRecord_new(description), replies, 1)

\* A rendering that shows the first record only.
ErrorRecord_fmt_first(error_record) ==
    IF error_record.records = <<>>
    THEN error_record.description
    ELSE error_record.description
         \o ErrorNumberLabel \o Digits(1)
         \o ErrorCodeLabel \o DecimalText(error_record.records[1][1])
         \o ErrorTextLabel \o error_record.records[1][2]

\* Display for ErrorRecord
ErrorRecord_fmt(error_record) ==
    LET push[index \in 0..Len(error_record.records)] ==
            IF index = 0
            THEN error_record.description
            ELSE push[index - 1]
                 \o ErrorNumberLabel \o Digits(index)
                 \o ErrorCodeLabel
                 \o DecimalText(error_record.records[index][1])
                 \o ErrorTextLabel \o error_record.records[index][2]
    IN  push[Len(error_record.records)]


(***************************************************************************)
(* State.                                                                  *)
(***************************************************************************)
VARIABLES
    result_state,   \* Statement.result_state: "NotFetched" or "Fetched"
    result_set,     \* Statement.result_set: the cached rows
    values,         \* Statement.values: the bound SqlValues
    bindings,       \* Statement.bindings: bind-handle slots (0 is a null slot)
    iter,           \* a RowIter borrowing the statement is alive
    life,           \* "live", "dropped" (Drop ran) or "panicked"
    srv_stmt,       \* native: the statement category code of the prepared text
    srv_meta,       \* native: parameter metadata of each select-list column
    srv_binds,      \* native: the number of bind variables of the prepared text
    srv_rows,       \* native: the rows the query returns when executed
    cursor,         \* native: rows of srv_rows fetched since the last execute
    executed,       \* native: the statement was executed successfully
    lastOp,         \* history: the last call, the state it was made in, its outcome
    calls,          \* history: the native calls the last call issued, in order
    pulled,         \* history: rows yielded by the current RowIter
    clean,          \* history: the last execute succeeded and no native call of
                    \* a fetch has reported an error since
    cached,         \* history: the execution result_set was last filled under
    last_rs,        \* history: rows of the last Ok result_set since execute
    native,         \* codec: a native value, or a buffer of the server
    sql_value,      \* codec: the SqlValue made of the native value
    created,        \* codec: what create_from_raw makes of the bytes
    converted,      \* codec: what value::<T>() makes of a SqlValue
    error_record,   \* errors: the ErrorRecord get_error built
    rendered,       \* errors: the text Display makes of the ErrorRecord
    handed,         \* history: the data pointers the last bind handed to
                    \* OCIBindByPos, in call order
    outputs         \* history: the columns the last call built, when it
                    \* was a row attempt of an iterator

vars == <<result_state, result_set, values, bindings, iter, life, srv_stmt,
          srv_binds, srv_meta, srv_rows, cursor, executed, lastOp, calls,
          pulled, clean, cached, last_rs, native, sql_value, created,
          converted, error_record, rendered, handed, outputs>>

codec_vars == <<native, sql_value, created, converted, error_record,
               rendered>>

stmt_vars == <<result_state, result_set, values, bindings>>
srv_vars == <<srv_stmt, srv_binds, srv_meta, srv_rows>>
alloc_vars == <<handed>>

(***************************************************************************)
(* The server side: what the native layer answers when it reports no       *)
(* error.                                                                  *)
(***************************************************************************)
TextWidth == 2      \* declared byte width of a text column

\* The 8 bytes a server writes for the integer v (little-endian).
LE8(v) ==
    [i \in 1..8 |-> IF v >= 0
                    THEN (IF i = 1 THEN v ELSE 0)
                    ELSE (IF i = 1 THEN 256 + v ELSE 255)]

\* Metadata of the column at a position: odd positions are NUMBER columns,
\* even positions VARCHAR2 columns of TextWidth bytes.
ColumnMeta(position) ==
    IF position % 2 = 1
    THEN [data_type |-> SQLT_NUM, precision |-> 38, scale |-> 0, data_size |-> 22]
    ELSE [data_type |-> SQLT_CHR, precision |-> 0, scale |-> 0, data_size |-> TextWidth]

\* What a fetch of row r leaves in the output buffer and the null indicator
\* of the column at a position: the integers 1, -2, 3, ... in a NUMBER
\* column, a letter padded with blanks in a text column.  The text of row 2
\* is NULL and its buffer holds bytes that are no text; with `bad` the
\* buffer of row 1 holds such bytes as well.
Cell(r, position, bad) ==
    IF position % 2 = 1
    THEN [ind |-> 0, buf |-> LE8(IF r % 2 = 0 THEN -r ELSE r)]
    ELSE [ind |-> IF r = 2 THEN NullIndicator ELSE 0,
          buf |-> [i \in 1..TextWidth |->
                     IF i > 1 THEN 32
                     ELSE IF r = 2 \/ (r = 1 /\ bad) THEN 255 ELSE 64 + r]]

ServerRows(nrows, ncols, bad) ==
    [r \in 1..nrows |-> [c \in 1..ncols |-> Cell(r, c, bad)]]

\* A plan of the native layer for one row attempt: the call that returns a
\* non-Success status (step, and the column position it is issued for), or
\* none.
NoFail == [step |-> "none", pos |-> 0]

Plans(ncols) ==
    {NoFail, [step |-> "ParamCount", pos |-> 0], [step |-> "Fetch", pos |-> 0]}
    \cup [step : {"ParamGet", "DataType", "Precision", "Scale", "DataSize",
                  "Define", "Free"},
          pos : 1..ncols]

Status(plan, step, position) ==
    IF plan.step = step /\ plan.pos = position THEN "Error" ELSE "Success"


(***************************************************************************)
(* Column descriptors (statement.rs).  Every operator returns the native   *)
(* calls it issued, as <<call, position, status>>, in order.               *)
(***************************************************************************)
\* allocate_parameter_handle
allocate_parameter_handle(position, plan) ==
    LET st == Status(plan, "ParamGet", position)
    IN  [ok |-> st = "Success", err |-> "Allocating parameter handle",
         calls |-> << <<"OCIParamGet", position, st>> >>]

\* column_internal_data_type
column_internal_data_type(position, plan) ==
    LET st == Status(plan, "DataType", position)
    IN  [ok |-> st = "Success", err |-> "Getting column data type",
         value |-> OciDataTypeFrom(srv_meta[position].data_type),
         calls |-> << <<"OCIAttrGet:DataType", position, st>> >>]

\* column_data_precision
column_data_precision(position, plan) ==
    LET st == Status(plan, "Precision", position)
    IN  [ok |-> st = "Success", err |-> "Getting column precision",
         value |-> srv_meta[position].precision,
         calls |-> << <<"OCIAttrGet:Precision", position, st>> >>]

\* column_data_scale
column_data_scale(position, plan) ==
    LET st == Status(plan, "Scale", position)
    IN  [ok |-> st = "Success", err |-> "Getting column scale",
         value |-> srv_meta[position].scale,
         calls |-> << <<"OCIAttrGet:Scale", position, st>> >>]

\* column_data_size
column_data_size(position, plan) ==
    LET st == Status(plan, "DataSize", position)
    IN  [ok |-> st = "Success", err |-> "Getting column data size",
         value |-> srv_meta[position].data_size,
         calls |-> << <<"OCIAttrGet:DataSize", position, st>> >>]

\* A resolution of the external type that looks at the scale alone.
determine_external_data_type_by_scale(position, plan) ==
    LET t == column_internal_data_type(position, plan)
        p == column_data_precision(position, plan)
        s == column_data_scale(position, plan)
    IN  IF t.value = "SqlNum"
        THEN [res |-> IF t.ok /\ p.ok /\ s.ok THEN "Ok" ELSE "Err",
              err |-> "Getting column data type",
              value |-> IF s.value = FloatScale THEN "SqlFloat" ELSE "SqlInt",
              calls |-> t.calls \o p.calls \o s.calls]
        ELSE [res |-> IF t.ok THEN "Ok" ELSE "Err",
              err |-> "Getting column data type",
              value |-> t.value, calls |-> t.calls]

\* determine_external_data_type: res is "Ok", "Err" or "Panic".
determine_external_data_type(position, plan) ==
    LET out(res, err, value, log) ==
            [res |-> res, err |-> err, value |-> value, calls |-> log]
        scaled(t, p, s) ==
            IF ~s.ok
            THEN out("Err", s.err, "none", t.calls \o p.calls \o s.calls)
            ELSE out("Ok", "",
                     IF p.value # 0 /\ s.value = FloatScale
                     THEN "SqlFloat" ELSE "SqlInt",
                     t.calls \o p.calls \o s.calls)
        number(t, p) ==
            IF ~p.ok
            THEN out("Err", p.err, "none", t.calls \o p.calls)
            ELSE scaled(t, p, column_data_scale(position, plan))
        typed(t) ==
            IF ~t.ok
            THEN out("Err", t.err, "none", t.calls)
            ELSE CASE t.value = "SqlNum" ->
                        number(t, column_data_precision(position, plan))
                   [] t.value \in {"SqlVarChar", "SqlChar", "SqlDate",
                                   "SqlTimestamp", "SqlTimestampTz"} ->
                        out("Ok", "", t.value, t.calls)
                   [] t.value = "Panic" ->
                        out("Panic", "Found an unknown OciDataType code",
                            "none", t.calls)
                   [] OTHER ->
                        out("Panic", "Uknown external conversion.", "none",
                            t.calls)
    IN  typed(column_internal_data_type(position, plan))

\* An output buffer of the fixed width of the type for every type.
define_output_parameter_fixed(position, data_size, data_type, plan) ==
    LET st == Status(plan, "Define", position)
    IN  [ok |-> st = "Success", err |-> "Defining output parameter",
         buffer_size |-> OciDataTypeSize(data_type),
         value_sz |-> OciDataTypeSize(data_type),
         calls |-> << <<"OCIDefineByPos", position, st>> >>]

\* define_output_parameter: the buffer length is the one passed to the
\* native define call.
define_output_parameter(position, data_size, data_type, plan) ==
    LET st == Status(plan, "Define", position)
        buffer_size == IF data_type \in {"SqlVarChar", "SqlChar"}
                       THEN data_size
                       ELSE OciDataTypeSize(data_type)
    IN  [ok |-> st = "Success", err |-> "Defining output parameter",
         buffer_size |-> buffer_size, value_sz |-> buffer_size,
         calls |-> << <<"OCIDefineByPos", position, st>> >>]

\* A Column::new that does not look at the statuses of its native calls.
Column_new_blind(position, plan) ==
    [res |-> "Ok", err |-> "",
     column |-> [handle |-> position,
                 sql_type |-> determine_external_data_type(position, NoFail).value,
                 buffer_size |->
                     define_output_parameter(
                         position, srv_meta[position].data_size,
                         determine_external_data_type(position, NoFail).value,
                         NoFail).buffer_size],
     held |-> FALSE,
     calls |-> allocate_parameter_handle(position, plan).calls
               \o determine_external_data_type(position, plan).calls
               \o column_data_size(position, plan).calls
               \o define_output_parameter(
                      position, srv_meta[position].data_size,
                      determine_external_data_type(position, NoFail).value,
                      plan).calls]

\* Column::new.  held: the parameter handle was obtained and is owned by
\* no Column (the call returned before a Column was built around it).
Column_new(position, plan) ==
    LET none == [handle |-> 0, sql_type |-> "none", buffer_size |-> 0,
                 value_sz |-> 0]
        out(res, err, column, held, log) ==
            [res |-> res, err |-> err, column |-> column, held |-> held,
             calls |-> log]
        defined(parameter, data_type, data_size, holder) ==
            IF ~holder.ok
            THEN out("Err", holder.err, none, TRUE,
                     parameter.calls \o data_type.calls \o data_size.calls
                     \o holder.calls)
            ELSE out("Ok", "",
                     [handle |-> position, sql_type |-> data_type.value,
                      buffer_size |-> holder.buffer_size,
                      value_sz |-> holder.value_sz],
                     FALSE,
                     parameter.calls \o data_type.calls \o data_size.calls
                     \o holder.calls)
        sized(parameter, data_type, data_size) ==
            IF ~data_size.ok
            THEN out("Err", data_size.err, none, TRUE,
                     parameter.calls \o data_type.calls \o data_size.calls)
            ELSE defined(parameter, data_type, data_size,
                         define_output_parameter(position, data_size.value,
                                                 data_type.value, plan))
        typed(parameter, data_type) ==
            IF data_type.res # "Ok"
            THEN out(data_type.res, data_type.err, none, TRUE,
                     parameter.calls \o data_type.calls)
            ELSE sized(parameter, data_type, column_data_size(position, plan))
        allocated(parameter) ==
            IF ~parameter.ok
            THEN out("Err", parameter.err, none, FALSE, parameter.calls)
            ELSE typed(parameter, determine_external_data_type(position, plan))
    IN  allocated(allocate_parameter_handle(position, plan))

\* Drop for Column: one OCIDescriptorFree of the handle; a non-Success
\* status panics.
Column_drop(column, plan) ==
    LET st == Status(plan, "Free", column.handle)
    IN  [panic |-> st # "Success",
         calls |-> << <<"OCIDescriptorFree", column.handle, st>> >>]

RECURSIVE drop_columns(_, _)
\* Dropping a Vec<Column> (or what is left of its IntoIter): each element
\* in order.
drop_columns(columns, plan) ==
    IF columns = <<>>
    THEN [panic |-> FALSE, calls |-> <<>>]
    ELSE LET d == Column_drop(Head(columns), plan)
             rest == drop_columns(Tail(columns), plan)
         IN  [panic |-> d.panic \/ rest.panic, calls |-> d.calls \o rest.calls]

\* A create_sql_value that decodes the buffer whatever the indicator.
create_sql_value_unchecked(column, cell) ==
    create_from_raw(
        [i \in 1..column.buffer_size |->
            IF i <= Len(cell.buf) THEN cell.buf[i] ELSE 0],
        column.sql_type)

\* Column::is_null and Column::create_sql_value on the buffer and the
\* indicator the fetch left.
create_sql_value(column, cell) ==
    IF cell.ind = NullIndicator
    THEN [ok |-> TRUE, panic |-> FALSE, value |-> SqlNull]
    ELSE create_from_raw(
             [i \in 1..column.buffer_size |->
                 IF i <= Len(cell.buf) THEN cell.buf[i] ELSE 0],
             column.sql_type)


(***************************************************************************)
(* The row-fetch step (statement.rs).                                      *)
(***************************************************************************)
\* number_of_columns
number_of_columns(plan) ==
    LET st == Status(plan, "ParamCount", 0)
    IN  [ok |-> st = "Success", err |-> "Getting number of columns",
         value |-> Len(srv_meta),
         calls |-> << <<"OCIAttrGet:ParamCount", 0, st>> >>]

\* OCIStmtFetch2 with the cursor at cur: a row while rows are left, NoData
\* after the last one; a statement that was not executed or is no query has
\* nothing to fetch.
FetchStatus(cur, plan) ==
    IF plan.step = "Fetch" \/ ~executed \/ srv_stmt # OCI_STMT_SELECT
    THEN "Error"
    ELSE IF cur < Len(srv_rows) THEN "Success" ELSE "NoData"

\* A fetch step that takes the end of the rows for a failure.
fetch_next_row_strict(cur, plan) ==
    LET st == FetchStatus(cur, plan)
    IN  [res |-> IF st = "Success" THEN "Data" ELSE "Err",
         err |-> "Fetching",
         calls |-> << <<"OCIStmtFetch2", 0, st>> >>]

\* fetch_next_row: res is "Data", "NoData" or "Err".
fetch_next_row(cur, plan) ==
    LET st == FetchStatus(cur, plan)
    IN  [res |-> CASE st = "Success" -> "Data"
                   [] st = "NoData" -> "NoData"
                   [] OTHER -> "Err",
         err |-> "Fetching",
         calls |-> << <<"OCIStmtFetch2", 0, st>> >>]

RECURSIVE build_columns_descending(_, _, _)
\* Descriptors built from the last position down to the first.
build_columns_descending(position, column_count, plan) ==
    LET more(c, rest) ==
            [res |-> rest.res, err |-> rest.err,
             columns |-> rest.columns \o <<c.column>>,
             calls |-> c.calls \o rest.calls]
        one(c) ==
            IF c.res # "Ok"
            THEN [res |-> c.res, err |-> c.err, columns |-> <<>>,
                  calls |-> c.calls]
            ELSE more(c, build_columns_descending(position + 1, column_count,
                                                  plan))
    IN  IF position > column_count
        THEN [res |-> "Ok", err |-> "", columns |-> <<>>, calls |-> <<>>]
        ELSE one(Column_new(column_count - position + 1, plan))

RECURSIVE build_columns(_, _, _)
\* (1..=column_count).map(Column::new).collect::<Result<Vec<Column>, _>>():
\* positions in increasing order, stopping at the first that fails; columns
\* holds the descriptors built so far.
build_columns(position, column_count, plan) ==
    LET more(c, rest) ==
            [res |-> rest.res, err |-> rest.err,
             columns |-> <<c.column>> \o rest.columns,
             calls |-> c.calls \o rest.calls]
        one(c) ==
            IF c.res # "Ok"
            THEN [res |-> c.res, err |-> c.err, columns |-> <<>>,
                  calls |-> c.calls]
            ELSE more(c, build_columns(position + 1, column_count, plan))
    IN  IF position > column_count
        THEN [res |-> "Ok", err |-> "", columns |-> <<>>, calls |-> <<>>]
        ELSE one(Column_new(position, plan))

RECURSIVE decode_columns_short(_, _, _)
\* A decoding that leaves out the value of the last column but one.
decode_columns_short(columns, row, plan) ==
    LET stop(v, d, left) ==
            [ok |-> FALSE, panic |-> v.panic \/ d.panic \/ left.panic,
             sql_values |-> <<>>, calls |-> d.calls \o left.calls]
        more(v, d, rest) ==
            [ok |-> rest.ok, panic |-> rest.panic,
             sql_values |-> IF Len(columns) = 2 THEN rest.sql_values
                            ELSE <<v.value>> \o rest.sql_values,
             calls |-> d.calls \o rest.calls]
        one(v, d) ==
            IF ~v.ok \/ v.panic \/ d.panic
            THEN stop(v, d, drop_columns(Tail(columns), plan))
            ELSE more(v, d, decode_columns_short(Tail(columns), row, plan))
    IN  IF columns = <<>>
        THEN [ok |-> TRUE, panic |-> FALSE, sql_values |-> <<>>,
              calls |-> <<>>]
        ELSE one(create_sql_value(Head(columns), row[Head(columns).handle]),
                 Column_drop(Head(columns), plan))

RECURSIVE decode_columns(_, _, _)
\* columns.into_iter().map(|col| col.create_sql_value()).collect(): each
\* column is decoded and dropped in turn; at the first failure the columns
\* left in the iterator are dropped undecoded.
decode_columns(columns, row, plan) ==
    LET stop(v, d, left) ==
            [ok |-> FALSE, panic |-> v.panic \/ d.panic \/ left.panic,
             sql_values |-> <<>>, calls |-> d.calls \o left.calls]
        more(v, d, rest) ==
            [ok |-> rest.ok, panic |-> rest.panic,
             sql_values |-> <<v.value>> \o rest.sql_values,
             calls |-> d.calls \o rest.calls]
        one(v, d) ==
            IF ~v.ok \/ v.panic \/ d.panic
            THEN stop(v, d, drop_columns(Tail(columns), plan))
            ELSE more(v, d, decode_columns(Tail(columns), row, plan))
    IN  IF columns = <<>>
        THEN [ok |-> TRUE, panic |-> FALSE, sql_values |-> <<>>,
              calls |-> <<>>]
        ELSE one(create_sql_value(Head(columns), row[Head(columns).handle]),
                 Column_drop(Head(columns), plan))

\* build_result_row with the cursor at cur.  res: "Row" is Ok(Some(row)),
\* "None" is Ok(None), "Err" is Err(err), "Panic" a panic on the way;
\* columns: the Columns that were built, with the lengths of their defines.
build_result_row(cur, plan) ==
    LET out(res, err, row, cursor_after, log) ==
            [res |-> res, err |-> err, row |-> row, cursor |-> cursor_after,
             calls |-> log, columns |-> <<>>]
        built_of(columns, r) == [r EXCEPT !.columns = columns]
        \* the columns go out of scope: res unless a drop panics
        leave(res, err, log, dropped) ==
            out(IF dropped.panic THEN "Panic" ELSE res, err, <<>>, cur,
                log \o dropped.calls)
        row_of(log, decoded) ==
            out(IF decoded.panic THEN "Panic"
                ELSE IF decoded.ok THEN "Row" ELSE "Err",
                IF decoded.ok THEN "" ELSE "Conversion",
                IF decoded.ok THEN decoded.sql_values ELSE <<>>,
                cur + 1,
                log \o decoded.calls)
        fetch(log, columns, fetched) ==
            CASE fetched.res = "Err" ->
                    leave("Err", fetched.err, log \o fetched.calls,
                          drop_columns(columns, plan))
              [] fetched.res = "NoData" ->
                    leave("None", "", log \o fetched.calls,
                          drop_columns(columns, plan))
              [] OTHER ->
                    row_of(log \o fetched.calls,
                           decode_columns(columns, srv_rows[cur + 1], plan))
        describe(column_count, built) ==
            IF built.res # "Ok"
            THEN built_of(built.columns,
                          leave(built.res, built.err,
                                column_count.calls \o built.calls,
                                drop_columns(built.columns, plan)))
            ELSE built_of(built.columns,
                          fetch(column_count.calls \o built.calls,
                                built.columns, fetch_next_row(cur, plan)))
        count(column_count) ==
            IF ~column_count.ok
            THEN out("Err", column_count.err, <<>>, cur, column_count.calls)
            ELSE describe(column_count,
                          build_columns(1, column_count.value, plan))
    IN  count(number_of_columns(plan))

RECURSIVE collect_rows_reversed(_, _, _, _)
\* A collection that puts each row before the rows fetched earlier.
collect_rows_reversed(cur, attempt, fail_at, plan) ==
    LET more(r, rest) ==
            [res |-> rest.res, err |-> rest.err,
             rows |-> rest.rows \o <<r.row>>,
             cursor |-> rest.cursor, calls |-> r.calls \o rest.calls]
        one(r) ==
            CASE r.res = "Row" ->
                    more(r, collect_rows_reversed(r.cursor, attempt + 1,
                                                  fail_at, plan))
              [] r.res = "None" ->
                    [res |-> "Ok", err |-> "", rows |-> <<>>,
                     cursor |-> r.cursor, calls |-> r.calls]
              [] OTHER ->
                    [res |-> r.res, err |-> r.err, rows |-> <<>>,
                     cursor |-> r.cursor, calls |-> r.calls]
    IN  one(build_result_row(cur, IF attempt = fail_at THEN plan ELSE NoFail))

RECURSIVE collect_rows(_, _, _, _)
\* RowIter collected into Result<Vec<Row>, OciError>: RowIter::next until it
\* returns None or an Err item.  The native layer follows `plan` in row
\* attempt number fail_at and reports no error in the others.
collect_rows(cur, attempt, fail_at, plan) ==
    LET more(r, rest) ==
            [res |-> rest.res, err |-> rest.err,
             rows |-> <<r.row>> \o rest.rows,
             cursor |-> rest.cursor, calls |-> r.calls \o rest.calls]
        one(r) ==
            CASE r.res = "Row" ->
                    more(r, collect_rows(r.cursor, attempt + 1, fail_at, plan))
              [] r.res = "None" ->
                    [res |-> "Ok", err |-> "", rows |-> <<>>,
                     cursor |-> r.cursor, calls |-> r.calls]
              [] OTHER ->
                    [res |-> r.res, err |-> r.err, rows |-> <<>>,
                     cursor |-> r.cursor, calls |-> r.calls]
    IN  one(build_result_row(cur, IF attempt = fail_at THEN plan ELSE NoFail))

(***************************************************************************)
(* Statement (statement.rs): each method as a function of the fields it    *)
(* reads and the statuses the native layer returns.                        *)
(***************************************************************************)
\* A lazy_result_set without the check of the fetch state.
lazy_result_set_unchecked(state) ==
    [res |-> "Ok", err |-> "", result_state |-> "Fetched", iter |-> TRUE]

\* Statement::lazy_result_set: panics when Fetched, else results_fetched()
\* and a RowIter.
lazy_result_set(state) ==
    IF state = "Fetched"
    THEN [res |-> "Panic", err |-> "Lazy fetch already completed.",
          result_state |-> state, iter |-> FALSE]
    ELSE [res |-> "Ok", err |-> "", result_state |-> "Fetched", iter |-> TRUE]

\* A result_set that drains the cursor whatever the fetch state.
Statement_result_set_refetch(state, cache, cur, fail_at, plan) ==
    LET out(res, err, state_after, cache_after, cursor_after, log, filled) ==
            [res |-> res, err |-> err, result_state |-> state_after,
             result_set |-> cache_after, cursor |-> cursor_after,
             calls |-> log, filled |-> filled]
        collected(rows) ==
            IF rows.res = "Ok"
            THEN out("Ok", "", "Fetched", rows.rows, rows.cursor, rows.calls,
                     TRUE)
            ELSE out(rows.res, rows.err, "Fetched", cache, rows.cursor,
                     rows.calls, FALSE)
    IN  collected(collect_rows(cur, 1, fail_at, plan))

\* Statement::result_set.  filled: the cache was replaced by the rows of
\* this call.
Statement_result_set(state, cache, cur, fail_at, plan) ==
    LET out(res, err, state_after, cache_after, cursor_after, log, filled) ==
            [res |-> res, err |-> err, result_state |-> state_after,
             result_set |-> cache_after, cursor |-> cursor_after,
             calls |-> log, filled |-> filled]
        collected(lazy, rows) ==
            IF rows.res = "Ok"
            THEN out("Ok", "", "Fetched", rows.rows, rows.cursor, rows.calls,
                     TRUE)
            ELSE out(rows.res, rows.err, lazy.result_state, cache,
                     rows.cursor, rows.calls, FALSE)
        not_fetched(lazy) ==
            IF lazy.res = "Panic"
            THEN out("Panic", lazy.err, state, cache, cur, <<>>, FALSE)
            ELSE collected(lazy, collect_rows(cur, 1, fail_at, plan))
    IN  IF state = "Fetched"
        THEN out("Ok", "", state, cache, cur, <<>>, FALSE)
        ELSE not_fetched(lazy_result_set(state))

\* get_statement_type
get_statement_type(attr_status) ==
    [ok |-> attr_status = "Success", err |-> "Getting statement type",
     value |-> StatementTypeFrom(srv_stmt),
     calls |-> << <<"OCIAttrGet:StmtType", 0, attr_status>> >>]

\* An execute that leaves the fetch state alone when it succeeds.
Statement_execute_keep(state, attr_status, exec_status) ==
    LET st == get_statement_type(attr_status)
        ok == attr_status = "Success" /\ exec_status = "Success"
    IN  [res |-> IF ok THEN "Ok" ELSE "Err",
         err |-> IF ok THEN "" ELSE "Executing statement",
         result_state |-> state,
         calls |-> IF attr_status = "Success"
                   THEN st.calls \o << <<"OCIStmtExecute", 0, exec_status>> >>
                   ELSE st.calls]

\* An execute that resets the fetch state before it knows the outcome.
Statement_execute_reset(state, attr_status, exec_status) ==
    LET st == get_statement_type(attr_status)
        ok == attr_status = "Success" /\ exec_status = "Success"
    IN  [res |-> IF ok THEN "Ok" ELSE "Err",
         err |-> IF ok THEN "" ELSE "Executing statement",
         result_state |-> "NotFetched",
         calls |-> IF attr_status = "Success"
                   THEN st.calls \o << <<"OCIStmtExecute", 0, exec_status>> >>
                   ELSE st.calls]

\* Statement::execute.  The OCIStmtExecute entry of calls carries iters in
\* the place of the position.
Statement_execute(state, attr_status, exec_status) ==
    LET out(res, err, state_after, log) ==
            [res |-> res, err |-> err, result_state |-> state_after,
             calls |-> log]
        run(stmt_type, iters) ==
            IF exec_status = "Success"
            THEN out("Ok", "", "NotFetched",
                     stmt_type.calls
                     \o << <<"OCIStmtExecute", iters, exec_status>> >>)
            ELSE out("Err", "Executing statement", state,
                     stmt_type.calls
                     \o << <<"OCIStmtExecute", iters, exec_status>> >>)
        typed(stmt_type) ==
            IF ~stmt_type.ok
            THEN out("Err", stmt_type.err, state, stmt_type.calls)
            ELSE IF stmt_type.value = "Panic"
            THEN out("Panic", "unknown statement type", state, stmt_type.calls)
            ELSE run(stmt_type, IF stmt_type.value = "Select" THEN 0 ELSE 1)
    IN  typed(get_statement_type(attr_status))

RECURSIVE bind_loop_through(_, _, _, _, _)
\* A loop that binds every parameter and reports a failure at the end.
bind_loop_through(vals, slots, params, index, fail_at) ==
    LET more(call, rest) == [rest EXCEPT !.calls = call \o rest.calls]
    IN  IF index >= Len(params)
        THEN [res |-> IF fail_at = 0 THEN "Ok" ELSE "Err",
              err |-> IF fail_at = 0 THEN "" ELSE "Binding parameter",
              values |-> vals, bindings |-> slots, calls |-> <<>>]
        ELSE more(<< <<"OCIBindByPos", index + 1,
                       IF index + 1 = fail_at THEN "Error" ELSE "Success">> >>,
                  bind_loop_through(
                      Append(vals, to_sql_value(params[index + 1])),
                      Append(slots, index + 1), params, index + 1, fail_at))

RECURSIVE bind_loop(_, _, _, _, _)
\* The for loop of Statement::bind from `index` (0-based) on: push the
\* value, push a null slot, OCIBindByPos at position index + 1 with the
\* slot bindings[index]; the native layer leaves its bind handle in that
\* slot.  The call for position fail_at returns a non-Success status.
bind_loop(vals, slots, params, index, fail_at) ==
    LET more(call, rest) == [rest EXCEPT !.calls = call \o rest.calls]
        bound(pushed, grown, position, st) ==
            IF pushed[position].variant = "Null"
            THEN [res |-> "Panic", err |-> "Null not handled",
                  values |-> pushed, bindings |-> grown, calls |-> <<>>]
            ELSE IF st # "Success"
            THEN [res |-> "Err", err |-> "Binding parameter",
                  values |-> pushed, bindings |-> grown,
                  calls |-> << <<"OCIBindByPos", position, st>> >>]
            ELSE more(<< <<"OCIBindByPos", position, st>> >>,
                      bind_loop(pushed, [grown EXCEPT ![position] = position],
                                params, index + 1, fail_at))
    IN  IF index >= Len(params)
        THEN [res |-> "Ok", err |-> "", values |-> vals, bindings |-> slots,
              calls |-> <<>>]
        ELSE bound(Append(vals, to_sql_value(params[index + 1])),
                   Append(slots, 0), index + 1,
                   IF index + 1 = fail_at THEN "Error" ELSE "Success")

\* Statement::bind: values.clear(), then the loop; bindings is not cleared.
Statement_bind(vals, slots, params, fail_at) ==
    bind_loop(<<>>, slots, params, 0, fail_at)

\* A bind that reserves nothing before it appends.
Vec_reserve_none(vec, len, additional) == vec

\* Vec::reserve(additional) on a vector of len elements: nothing when the
\* spare capacity suffices, else a new buffer of the amortised capacity.
Vec_reserve(vec, len, additional) ==
    IF vec.cap - len >= additional
    THEN vec
    ELSE [cap |-> IF 2 * vec.cap >= len + additional
                  THEN 2 * vec.cap ELSE len + additional,
          buf |-> vec.buf + 1]

\* Vec::push on a vector of len elements grows the full vector by one.
Vec_push(vec, len) ==
    IF len = vec.cap
    THEN [cap |-> IF 2 * vec.cap >= len + 1 THEN 2 * vec.cap ELSE len + 1,
          buf |-> vec.buf + 1]
    ELSE vec

\* Where the pointer of SqlValue::as_oci_ptr points for values[index]: into
\* the String's own heap buffer for text, into the element of the vector's
\* buffer otherwise; cap is the capacity of the vector at that time.
as_oci_ptr_target(vec, val, index) ==
    IF val.variant \in {"VarChar", "Char"}
    THEN [region |-> "heap", buf |-> 0, index |-> index, cap |-> vec.cap]
    ELSE [region |-> "vec", buf |-> vec.buf, index |-> index,
          cap |-> vec.cap]

RECURSIVE bind_pointers(_, _, _, _)
\* The loop of Statement::bind as the allocator sees it: each value of
\* `vals` is pushed and then its pointer is handed to OCIBindByPos.
bind_pointers(vec, vals, index, ptrs) ==
    LET pushed(v) ==
            bind_pointers(v, vals, index + 1,
                          Append(ptrs,
                                 as_oci_ptr_target(v, vals[index + 1],
                                                   index + 1)))
    IN  IF index >= Len(vals)
        THEN [vec |-> vec, ptrs |-> ptrs]
        ELSE pushed(Vec_push(vec, index))

\* values.clear(); values.reserve(params.len()); then the loop, which got
\* as far as `vals`, on a list of capacity cap.  The buffers are numbered
\* from the one the list has when bind is called, which is buffer 0; of
\* each pointer the result says how often the list took a new buffer after
\* the pointer was made, and whether the list had room for all nparams
\* values when it was made.
bind_storage(cap, nparams, vals) ==
    LET settled(a) ==
            [i \in 1..Len(a.ptrs) |->
                [region |-> a.ptrs[i].region,
                 index |-> a.ptrs[i].index,
                 moved |-> IF a.ptrs[i].region = "vec"
                           THEN a.vec.buf - a.ptrs[i].buf
                           ELSE 0,
                 room |-> a.ptrs[i].cap >= nparams]]
    IN  settled(bind_pointers(
                    Vec_reserve([cap |-> cap, buf |-> 0], 0, nparams),
                    vals, 0, <<>>))

\* Statement::commit
Statement_commit(status) ==
    [res |-> IF status = "Success" THEN "Ok" ELSE "Err",
     err |-> IF status = "Success" THEN "" ELSE "Commiting statement",
     calls |-> << <<"OCITransCommit", 0, status>> >>]

\* A release whose status is not looked at.
release_statement_quiet(status) ==
    [res |-> "Ok", err |-> "",
     calls |-> << <<"OCIStmtRelease", 0, status>> >>]

\* release_statement, and Drop for Statement, which panics on its Err.
release_statement(status) ==
    [res |-> IF status = "Success" THEN "Ok" ELSE "Panic",
     err |-> IF status = "Success" THEN "" ELSE "Releasing statement",
     calls |-> << <<"OCIStmtRelease", 0, status>> >>]

(***************************************************************************)
(* Actions: one per call a client of the crate can make.  A client can     *)
(* call a Statement method only while no RowIter borrows the statement.    *)
(***************************************************************************)
\* Native parameters: an i64 (its value as a one-element tuple) and a String
\* (its bytes).
\* One parameter of each type that implements ToSqlValue: i64, f64,
\* Date<Utc>, DateTime<Utc>, DateTime<FixedOffset>, &str and String.
ParamCycle ==
    <<[t |-> "i64", v |-> <<7>>],
      [t |-> "f64", v |-> <<0, 0, 0, 0, 0, 0, 248, 63>>],
      [t |-> "Date", v |-> <<2006, 10, 1>>],
      [t |-> "DateTime", v |-> <<2018, 1, 5, 19, 25, 30, 0>>],
      [t |-> "DateTimeTz", v |-> <<2018, 1, 5, 19, 25, 30, 0, 19800>>],
      [t |-> "str", v |-> <<65>>],
      [t |-> "String", v |-> <<66, 67>>]>>

ParamValues == {ParamCycle[k] : k \in 1..Len(ParamCycle)}

\* The parameter lists of up to n parameters: runs of neighbours of
\* ParamCycle, from every second of its places on.
ParamLists(n) ==
    {[i \in 1..m |-> ParamCycle[((k + i - 2) % Len(ParamCycle)) + 1]] :
        m \in 0..n, k \in {1, 3, 5, 7}}

Callable == life = "live" /\ ~iter

After(res) == IF res = "Panic" THEN "panicked" ELSE "live"

\* No native call of a log reported an error: every status is Success, or
\* NoData from the fetch.
NoError(log) ==
    \A i \in 1..Len(log) :
        \/ log[i][3] = "Success"
        \/ log[i][1] = "OCIStmtFetch2" /\ log[i][3] = "NoData"

\* No SqlValue was made yet, nothing was decoded yet.
NoValue == [variant |-> "none", v |-> <<>>]
NotDecoded == [ok |-> FALSE, panic |-> FALSE, value |-> NoValue]
NoRecord == [description |-> <<>>, records |-> << <<0>> >>]
NotRendered == <<0>>
NotConverted ==
    [target |-> "none", from |-> NoValue,
     result |-> [some |-> FALSE, v |-> <<>>]]

\* Statement::new succeeded on a prepared text.
InitStatement ==
    /\ result_state = "NotFetched"
    /\ result_set = <<>>
    /\ values = <<>>
    /\ bindings = <<>>
    /\ iter = FALSE
    /\ life = "live"
    /\ cursor = 0
    /\ executed = FALSE
    /\ lastOp = [op |-> "new", pre |-> "NotFetched", res |-> "Ok", err |-> ""]
    /\ calls = <<>>
    /\ pulled = <<>>
    /\ clean = TRUE
    /\ cached = [filled |-> FALSE, fresh |-> FALSE]
    /\ last_rs = [some |-> FALSE, rows |-> <<>>]
    /\ handed = <<>>
    /\ outputs = <<>>
    /\ native = [t |-> "none", v |-> <<>>]
    /\ sql_value = NoValue
    /\ created = NotDecoded
    /\ converted = NotConverted
    /\ error_record = NoRecord
    /\ rendered = NotRendered

\* A text without bind variables: an INSERT, or a query of up to MaxCols
\* columns over up to MaxRows rows.
Init ==
    /\ InitStatement
    /\ srv_binds = 0
    /\ \E ncols \in 0..MaxCols, nrows \in 0..MaxRows, bad \in BOOLEAN :
          /\ ncols = 0 => nrows = 0
          /\ bad => (ncols >= 2 /\ nrows >= 1)
          /\ srv_stmt = IF ncols = 0 THEN OCI_STMT_INSERT ELSE OCI_STMT_SELECT
          /\ srv_meta = [c \in 1..ncols |-> ColumnMeta(c)]
          /\ srv_rows = ServerRows(nrows, ncols, bad)

\* A text with MaxParams bind variables: an INSERT, or a query of one column
\* over one row.
InitBind ==
    /\ InitStatement
    /\ srv_binds = MaxParams
    /\ \E ncols \in 0..1 :
          /\ srv_stmt = IF ncols = 0 THEN OCI_STMT_INSERT ELSE OCI_STMT_SELECT
          /\ srv_meta = [c \in 1..ncols |-> ColumnMeta(c)]
          /\ srv_rows = ServerRows(ncols, ncols, FALSE)

\* The precisions (c_short) and scales (c_schar) the server reports for a
\* NUMBER column.
Precisions == {0, 1, 38, 126}
Scales == {-128, -127, -126, 0, 127}

\* A text without bind variables that queries one NUMBER column of any of
\* these precisions and scales, over MaxRows rows.
InitNumber ==
    /\ InitStatement
    /\ srv_binds = 0
    /\ srv_stmt = OCI_STMT_SELECT
    /\ \E p \in Precisions, s \in Scales :
          srv_meta = <<[data_type |-> SQLT_NUM, precision |-> p, scale |-> s,
                        data_size |-> 22]>>
    /\ srv_rows = ServerRows(MaxRows, 1, FALSE)

\* The statement categories the server reports: the ten of StatementType,
\* and those of a CALL (10) and a MERGE (16) statement.
StatementCodes == (OCI_STMT_UNKNOWN..OCI_STMT_DECLARE) \cup {10, 16}

\* The wire types the server reports for a column: the eight of
\* OciDataType, and those of a RAW (23), a CLOB (112) and a BLOB (113)
\* column.
WireCodes ==
    {SQLT_CHR, SQLT_NUM, SQLT_INT, SQLT_FLT, SQLT_DAT, SQLT_AFC,
     SQLT_TIMESTAMP, SQLT_TIMESTAMP_TZ, 23, 112, 113}

\* Metadata of a column of a wire type.
WireMeta(code) ==
    [data_type |-> code, precision |-> 38, scale |-> 0,
     data_size |-> IF code \in {SQLT_CHR, SQLT_AFC} THEN TextWidth ELSE 22]

\* What a fetch leaves in the output buffer of a column of a wire type.
WireCell(code) ==
    [ind |-> 0,
     buf |-> CASE code \in {SQLT_CHR, SQLT_AFC} -> [i \in 1..TextWidth |-> 65]
               [] code = SQLT_DAT -> create_raw_from_date(<<2006, 10, 1>>)
               [] code = SQLT_TIMESTAMP ->
                     create_raw_from_datetime(<<2018, 1, 5, 19, 25, 30, 0>>)
               [] code = SQLT_TIMESTAMP_TZ ->
                     create_raw_from_datetime_with_timezone(
                         <<2018, 1, 5, 19, 25, 30, 0, 19800>>)
               [] OTHER -> LE8(1)]

\* A text without bind variables of any statement category; a query has
\* one column of any wire type, over up to MaxRows rows.
InitWire ==
    /\ InitStatement
    /\ srv_binds = 0
    /\ srv_stmt \in StatementCodes
    /\ \E code \in WireCodes, nrows \in 0..MaxRows :
          IF srv_stmt = OCI_STMT_SELECT
          THEN /\ srv_meta = <<WireMeta(code)>>
               /\ srv_rows = [r \in 1..nrows |-> <<WireCell(code)>>]
          ELSE /\ srv_meta = <<>>
               /\ srv_rows = <<>>

\* A bind that marks the results as not fetched.
Bind_resets ==
    /\ Callable
    /\ \E params \in ParamLists(srv_binds), fail_at \in 0..MaxParams :
          /\ fail_at <= Len(params)
          /\ Len(bindings) + Len(params) <= MaxBindings
          /\ LET done(b) ==
                     /\ values' = b.values
                     /\ bindings' = b.bindings
                     /\ lastOp' = [op |-> "bind", pre |-> result_state,
                                   res |-> b.res, err |-> b.err,
                                   params |-> Len(params)]
                     /\ calls' = b.calls
                     /\ life' = After(b.res)
             IN  /\ done(Statement_bind(values, bindings, params, fail_at))
                 /\ \E cap \in {Len(values), MaxParams} :
                        handed' = bind_storage(cap, Len(params), values')
    /\ result_state' = "NotFetched"
    /\ UNCHANGED <<result_set, iter, srv_vars, cursor,
                   executed, pulled, clean, cached, last_rs, codec_vars>>
    /\ outputs' = <<>>

Bind ==
    /\ Callable
    /\ \E params \in ParamLists(srv_binds), fail_at \in 0..MaxParams :
          /\ fail_at <= Len(params)
          /\ Len(bindings) + Len(params) <= MaxBindings
          /\ LET done(b) ==
                     /\ values' = b.values
                     /\ bindings' = b.bindings
                     /\ lastOp' = [op |-> "bind", pre |-> result_state,
                                   res |-> b.res, err |-> b.err,
                                   params |-> Len(params)]
                     /\ calls' = b.calls
                     /\ life' = After(b.res)
             IN  /\ done(Statement_bind(values, bindings, params, fail_at))
                 /\ \E cap \in {Len(values), MaxParams} :
                        handed' = bind_storage(cap, Len(params), values')
    /\ UNCHANGED <<result_state, result_set, iter, srv_vars, cursor,
                   executed, pulled, clean, cached, last_rs, codec_vars>>
    /\ outputs' = <<>>

Execute ==
    /\ Callable
    /\ \E attr_status \in ReturnCode, exec_status \in ReturnCode :
          LET done(e) ==
                  /\ result_state' = e.result_state
                  /\ lastOp' = [op |-> "execute", pre |-> result_state,
                                res |-> e.res, err |-> e.err]
                  /\ calls' = e.calls
                  /\ life' = After(e.res)
                  /\ IF e.res = "Ok"
                     THEN /\ cursor' = 0
                          /\ executed' = TRUE
                          /\ clean' = TRUE
                          /\ pulled' = <<>>
                          /\ cached' = [cached EXCEPT !.fresh = FALSE]
                          /\ last_rs' = [some |-> FALSE, rows |-> <<>>]
                     ELSE /\ clean' = FALSE
                          /\ UNCHANGED <<cursor, executed, pulled, cached,
                                         last_rs>>
          IN  done(Statement_execute(result_state, attr_status, exec_status))
    /\ UNCHANGED <<result_set, values, bindings, iter, srv_vars, codec_vars,
                   alloc_vars>>
    /\ outputs' = <<>>

ResultSet ==
    /\ Callable
    /\ \E fail_at \in 0..(Len(srv_rows) + 1), plan \in Plans(Len(srv_meta)) :
          LET done(r) ==
                  /\ result_state' = r.result_state
                  /\ result_set' = r.result_set
                  /\ cursor' = r.cursor
                  /\ lastOp' = [op |-> "result_set", pre |-> result_state,
                                res |-> r.res, err |-> r.err]
                  /\ calls' = r.calls
                  /\ life' = After(r.res)
                  /\ clean' = (clean /\ NoError(r.calls))
                  /\ cached' = IF r.filled
                               THEN [filled |-> TRUE, fresh |-> TRUE]
                               ELSE cached
                  /\ last_rs' = IF r.res = "Ok"
                                THEN [some |-> TRUE, rows |-> r.result_set]
                                ELSE last_rs
          IN  /\ (fail_at = 0) = (plan = NoFail)
              /\ done(Statement_result_set(result_state, result_set, cursor,
                                           fail_at, plan))
    /\ UNCHANGED <<values, bindings, iter, srv_vars, executed, pulled,
                   codec_vars,
                   alloc_vars>>
    /\ outputs' = <<>>

LazyResultSet ==
    /\ Callable
    /\ LET done(l) ==
               /\ result_state' = l.result_state
               /\ iter' = l.iter
               /\ lastOp' = [op |-> "lazy_result_set", pre |-> result_state,
                             res |-> l.res, err |-> l.err]
               /\ life' = After(l.res)
       IN  done(lazy_result_set(result_state))
    /\ calls' = <<>>
    /\ pulled' = <<>>
    /\ UNCHANGED <<result_set, values, bindings, srv_vars, cursor,
                   executed, clean, cached, last_rs, codec_vars,
                   alloc_vars>>
    /\ outputs' = <<>>

\* RowIter::next
RowIterNext ==
    /\ life = "live" /\ iter
    /\ \E plan \in Plans(Len(srv_meta)) :
          LET done(r) ==
                  /\ cursor' = r.cursor
                  /\ lastOp' = [op |-> "next", pre |-> result_state,
                                res |-> r.res, err |-> r.err]
                  /\ calls' = r.calls
                  /\ life' = After(r.res)
                  /\ pulled' = IF r.res = "Row"
                               THEN Append(pulled, r.row)
                               ELSE pulled
                  /\ clean' = (clean /\ NoError(r.calls))
                  /\ outputs' = r.columns
          IN  done(build_result_row(cursor, plan))
    /\ UNCHANGED <<stmt_vars, iter, srv_vars, executed, cached, last_rs,
                   codec_vars, alloc_vars>>

\* The RowIter goes out of scope: the borrow of the statement ends.
RowIterDrop ==
    /\ life = "live" /\ iter
    /\ iter' = FALSE
    /\ lastOp' = [op |-> "drop_iter", pre |-> result_state, res |-> "Ok",
                  err |-> ""]
    /\ calls' = <<>>
    /\ UNCHANGED <<stmt_vars, life, srv_vars, cursor, executed,
                   pulled, clean, cached, last_rs, codec_vars,
                   alloc_vars>>
    /\ outputs' = <<>>

\* A commit that marks the results as not fetched and forgets the values.
Commit_resets ==
    /\ Callable
    /\ \E status \in ReturnCode :
          LET c == Statement_commit(status)
          IN  /\ lastOp' = [op |-> "commit", pre |-> result_state,
                            res |-> c.res, err |-> c.err]
              /\ calls' = c.calls
    /\ result_state' = "NotFetched"
    /\ values' = <<>>
    /\ UNCHANGED <<result_set, bindings, iter, life, srv_vars, cursor,
                   executed, pulled, clean, cached, last_rs, codec_vars,
                   alloc_vars>>
    /\ outputs' = <<>>

Commit ==
    /\ Callable
    /\ \E status \in ReturnCode :
          LET c == Statement_commit(status)
          IN  /\ lastOp' = [op |-> "commit", pre |-> result_state,
                            res |-> c.res, err |-> c.err]
              /\ calls' = c.calls
    /\ UNCHANGED <<stmt_vars, iter, life, srv_vars, cursor, executed,
                   pulled, clean, cached, last_rs, codec_vars,
                   alloc_vars>>
    /\ outputs' = <<>>

\* Drop for Statement
Drop ==
    /\ Callable
    /\ \E status \in ReturnCode :
          LET d == release_statement(status)
          IN  /\ lastOp' = [op |-> "drop", pre |-> result_state,
                            res |-> d.res, err |-> d.err]
              /\ calls' = d.calls
              /\ life' = IF d.res = "Ok" THEN "dropped" ELSE "panicked"
    /\ UNCHANGED <<stmt_vars, iter, srv_vars, cursor, executed,
                   pulled, clean, cached, last_rs, codec_vars,
                   alloc_vars>>
    /\ outputs' = <<>>

Next ==
    \/ Bind
    \/ Execute
    \/ ResultSet
    \/ LazyResultSet
    \/ RowIterNext
    \/ RowIterDrop
    \/ Commit
    \/ Drop

\* Statements without bind variables.
Spec == Init /\ [][Next]_vars

\* Statements with bind variables.
SpecBind == InitBind /\ [][Next]_vars

\* Queries of one NUMBER column.
SpecNumber == InitNumber /\ [][Next]_vars

\* Statements of every category and queries of one column of every wire
\* type.
SpecWire == InitWire /\ [][Next]_vars

(***************************************************************************)
(* The codec on its own (types.rs): a native value is made a SqlValue and  *)
(* the bytes the native layer is given for it are decoded again; a buffer  *)
(* of the server is decoded as text.                                       *)
(***************************************************************************)
\* i64 values, of at most 32 bits.
NativeIntegers ==
    {0, 1, -1, 7, 42, 255, 256, -256, 65535, -65536, 16777216, 2147483647,
     -2147483647}

\* Years of the native calendar: its ends, the ends of the years whose
\* century fits a byte, and years in between.
Years ==
    {-262144, -10100, -10099, -101, -1, 0, 1, 1999, 2000, 2006, 2018, 9999,
     15599, 15600, 262143}

\* Date<Utc> values.
NativeDates ==
    {d \in Years \X {1, 2, 10, 12} \X {1, 29, 31} :
        ValidDate(d[1], d[2], d[3])}

\* Times of day, the last one within a leap second.
Times ==
    {<<0, 0, 0, 0>>, <<19, 25, 30, 0>>, <<23, 59, 59, 999999999>>,
     <<23, 59, 59, 1999999999>>}

\* DateTime<Utc> values.
NativeDateTimes ==
    {d \o t : d \in {<<2018, 1, 5>>, <<-1, 2, 1>>, <<15600, 12, 31>>},
              t \in Times}

\* Offsets of FixedOffset in seconds: east, west and none, with and
\* without leftover minutes or seconds, up to the ends of the type.
Offsets ==
    {0, 3600, -3600, 19800, -19800, 50400, -43200, 34200, 3630, -72000,
     -75600, 86399, -86399}

\* DateTime<FixedOffset> values: a UTC instant and an offset.
NativeDateTimesTz ==
    {<<2018, 1, 5>> \o t \o <<o>> : t \in Times, o \in Offsets}

\* f64 values, as their 8 bytes: 0.0 and 1.5.
NativeFloats ==
    {<<0, 0, 0, 0, 0, 0, 0, 0>>, <<0, 0, 0, 0, 0, 0, 248, 63>>}

\* The types value::<T>() is asked for.
Targets == {"String", "i64", "f64", "Date", "DateTime", "DateTimeTz"}

\* Descriptions of the action that failed: "Binding parameter" and a
\* one-letter text.
Descriptions ==
    {<<66, 105, 110, 100, 105, 110, 103, 32, 112, 97, 114, 97, 109, 101, 116,
       101, 114>>,
     <<88>>}

MaxRecords == 3     \* records the server holds for one failure

\* Answers of OCIErrorGet to one record number: a record (code and text),
\* or a failure of the call itself.
Replies ==
    {[status |-> "Success", code |-> 942, message |-> <<65>>],
     [status |-> "Success", code |-> 1017, message |-> <<66, 10>>],
     [status |-> "Error", code |-> 0, message |-> <<>>],
     [status |-> "InvalidHandle", code |-> 0, message |-> <<>>]}

ReplyLists == UNION {[1..n -> Replies] : n \in 0..MaxRecords}

\* Buffers of a text column TextWidth + 1 bytes wide: blanks, a letter,
\* and a byte no text contains.
TextBuffers == [1..(TextWidth + 1) -> {32, 65, 255}]

\* Buffers of a DATE column, 7 bytes: 2018 with the month, day, hour, minute
\* and second bytes in and out of range, midnight (1, 1, 1) among them.
DateBuffers ==
    {<<120, 118, month, day, hour, minute, second>> :
        month \in {0, 1, 2, 13}, day \in {0, 5, 30, 32},
        hour \in {0, 1, 20, 25}, minute \in {0, 1, 26, 61},
        second \in {0, 1, 31, 61}}

\* The four bytes of the nanoseconds: 0, 999999999, 2000000000 and 2^31.
NanoBytes ==
    {<<0, 0, 0, 0>>, <<59, 154, 201, 255>>, <<119, 53, 148, 0>>,
     <<128, 0, 0, 0>>}

\* Buffers of a TIMESTAMP column, 11 bytes.
TimestampBuffers ==
    {d \o n : d \in {<<120, 118, 1, 5, 1, 1, 1>>,
                     <<120, 118, 1, 5, 20, 26, 31>>,
                     <<120, 118, 2, 30, 20, 26, 31>>,
                     <<120, 118, 1, 5, 0, 26, 31>>},
              n \in NanoBytes}

\* Buffers of a TIMESTAMP WITH TIME ZONE column, 13 bytes: the offset
\* bytes (hours + 20, minutes + 60) from 0 to 255.
TimestampTzBuffers ==
    {t \o <<hour, minute>> : t \in TimestampBuffers,
                            hour \in {0, 15, 20, 34, 44, 255},
                            minute \in {0, 30, 60, 90, 119, 255}}

CodecInit ==
    /\ result_state = "NotFetched"
    /\ result_set = <<>>
    /\ values = <<>>
    /\ bindings = <<>>
    /\ iter = FALSE
    /\ life = "live"
    /\ cursor = 0
    /\ executed = FALSE
    /\ lastOp = [op |-> "new", pre |-> "NotFetched", res |-> "Ok", err |-> ""]
    /\ calls = <<>>
    /\ pulled = <<>>
    /\ clean = TRUE
    /\ cached = [filled |-> FALSE, fresh |-> FALSE]
    /\ last_rs = [some |-> FALSE, rows |-> <<>>]
    /\ handed = <<>>
    /\ outputs = <<>>
    /\ srv_stmt = OCI_STMT_INSERT
    /\ srv_binds = 0
    /\ srv_meta = <<>>
    /\ srv_rows = <<>>
    /\ native \in [t : {"i64"}, v : {<<i>> : i \in NativeIntegers}]
                 \cup [t : {"f64"}, v : NativeFloats]
                 \cup [t : {"Date"}, v : NativeDates]
                 \cup [t : {"DateTime"}, v : NativeDateTimes]
                 \cup [t : {"DateTimeTz"}, v : NativeDateTimesTz]
                 \cup [t : {"SqlVarChar", "SqlChar"}, v : TextBuffers]
                 \cup [t : {"SqlDate"}, v : DateBuffers]
                 \cup [t : {"SqlTimestamp"}, v : TimestampBuffers]
                 \cup [t : {"SqlTimestampTz"}, v : TimestampTzBuffers]
                 \cup [t : {"get_error"}, v : Descriptions,
                       replies : ReplyLists]
    /\ sql_value = NoValue
    /\ created = NotDecoded
    /\ converted = NotConverted
    /\ error_record = NoRecord
    /\ rendered = NotRendered

\* The statement is not part of the codec's steps.
statement_idle ==
    UNCHANGED <<result_state, result_set, values, bindings, iter, life,
                srv_stmt, srv_binds, srv_meta, srv_rows, cursor, executed,
                lastOp, calls, pulled, clean, cached, last_rs, handed,
                outputs>>

\* ToSqlValue::to_sql_value on the native value.
ToSqlValue ==
    /\ native.t \in {"i64", "f64", "Date", "DateTime", "DateTimeTz"}
    /\ sql_value = NoValue
    /\ sql_value' = to_sql_value(native)
    /\ UNCHANGED <<native, created, converted, error_record, rendered>>
    /\ statement_idle

\* SqlValue::create_from_raw on the size() bytes at as_oci_ptr() of the
\* SqlValue, with its as_oci_data_type().
DecodeBound ==
    /\ sql_value # NoValue
    /\ created = NotDecoded
    /\ created' = create_from_raw(
                      SubSeq(as_oci_ptr(sql_value), 1, size(sql_value)),
                      as_oci_data_type(sql_value))
    /\ UNCHANGED <<native, sql_value, converted, error_record, rendered>>
    /\ statement_idle

\* SqlValue::create_from_raw on a buffer of a text or temporal column.
DecodeBuffer ==
    /\ native.t \in {"SqlVarChar", "SqlChar", "SqlDate", "SqlTimestamp",
                     "SqlTimestampTz"}
    /\ created = NotDecoded
    /\ created' = create_from_raw(native.v, native.t)
    /\ UNCHANGED <<native, sql_value, converted, error_record, rendered>>
    /\ statement_idle

\* SqlValue::value::<T>() on the SqlValue that was made, on the one that
\* was decoded, or on the Null of a column without a value.
Value ==
    /\ converted = NotConverted
    /\ \E target \in Targets,
          from \in {sql_value, created.value, SqlNull} \ {NoValue} :
          /\ from = created.value => (created.ok /\ ~created.panic)
          /\ converted' = [target |-> target, from |-> from,
                            result |-> SqlValue_value(from, target)]
    /\ UNCHANGED <<native, sql_value, created, error_record, rendered>>
    /\ statement_idle

\* get_error after a native call that failed.
GetError ==
    /\ native.t = "get_error"
    /\ error_record = NoRecord
    /\ error_record' = get_error(native.v, native.replies)
    /\ UNCHANGED <<native, sql_value, created, converted, rendered>>
    /\ statement_idle

\* format!("{}", err) of the OciError::Oracle that get_error returned.
Display ==
    /\ error_record # NoRecord
    /\ rendered = NotRendered
    /\ rendered' = ErrorRecord_fmt(error_record)
    /\ UNCHANGED <<native, sql_value, created, converted, error_record>>
    /\ statement_idle

NextCodec ==
    \/ ToSqlValue
    \/ DecodeBound
    \/ DecodeBuffer
    \/ Value
    \/ GetError
    \/ Display

SpecCodec == CodecInit /\ [][NextCodec]_vars


(***************************************************************************)
(* Properties.  lastOp and calls describe the call that led to the state:  *)
(* a property of a call is an invariant over the states that follow it, or *)
(* a property of the step that makes it.                                   *)
(***************************************************************************)
\* The statuses of the fetch calls of a log, in order.
FetchStatuses(log) ==
    LET fetches == SelectSeq(log, LAMBDA c : c[1] = "OCIStmtFetch2")
    IN  [i \in 1..Len(fetches) |-> fetches[i][3]]

\* The fetches of a full drain of n rows: n rows, then the end of the data.
DrainOf(n) == [i \in 1..(n + 1) |-> IF i <= n THEN "Success" ELSE "NoData"]

\* Every text the server holds is well-formed or NULL.
Wellformed ==
    \A r \in 1..Len(srv_rows), c \in 1..Len(srv_meta) :
        srv_meta[c].data_type = SQLT_CHR =>
            \/ srv_rows[r][c].ind = NullIndicator
            \/ IsUtf8(srv_rows[r][c].buf)

RECURSIVE HandlesBalanced(_, _)
\* Over a log of native calls, with `held` the parameter handles obtained
\* and not yet passed to OCIDescriptorFree: no handle is held when a row
\* attempt starts (its column-count read) or when the log ends, and a handle
\* is freed only while held.
HandlesBalanced(log, held) ==
    IF log = <<>>
    THEN held = {}
    ELSE CASE Head(log)[1] = "OCIAttrGet:ParamCount" ->
                held = {} /\ HandlesBalanced(Tail(log), held)
           [] Head(log)[1] = "OCIParamGet" /\ Head(log)[3] = "Success" ->
                /\ Head(log)[2] \notin held
                /\ HandlesBalanced(Tail(log), held \cup {Head(log)[2]})
           [] Head(log)[1] = "OCIDescriptorFree" ->
                /\ Head(log)[2] \in held
                /\ HandlesBalanced(Tail(log), held \ {Head(log)[2]})
           [] OTHER -> HandlesBalanced(Tail(log), held)

\* C1: lazy_result_set returns its row sequence only when called in
\* NotFetched, and the statement is Fetched as soon as it returns, before a
\* row is pulled and without a native call; called in Fetched it panics: it
\* returns no error value and no row sequence.
LazyResultSetOnlyFromNotFetched ==
    lastOp.op = "lazy_result_set" =>
        IF lastOp.pre = "NotFetched"
        THEN /\ lastOp.res = "Ok"
             /\ result_state = "Fetched"
             /\ iter
             /\ pulled = <<>>
             /\ calls = <<>>
        ELSE /\ lastOp.res = "Panic"
             /\ life = "panicked"
             /\ ~iter

\* C1 happens: lazy_result_set was called on a statement that result_set
\* had left Fetched, after an execute.
LazyResultSetCalledWhenFetched ==
    /\ lastOp.op = "lazy_result_set"
    /\ lastOp.pre = "Fetched"
    /\ executed
    /\ cached.fresh

\* C2: a result_set call that follows an Ok result_set call with no
\* successful execute in between returns Ok with the rows the earlier call
\* returned, leaves the cache as it is and issues no native call.
ResultSetTwiceIsIdentical ==
    [][(last_rs.some /\ lastOp'.op = "result_set") =>
          /\ lastOp'.res = "Ok"
          /\ result_set' = last_rs.rows
          /\ result_set' = result_set
          /\ calls' = <<>>]_vars

\* C2 happens: the last call is a result_set that issued no native call
\* and returned MaxRows rows which a result_set call fetched after the
\* latest execute.
ResultSetCalledTwice ==
    /\ lastOp.op = "result_set"
    /\ lastOp.res = "Ok"
    /\ lastOp.pre = "Fetched"
    /\ cached.fresh
    /\ calls = <<>>
    /\ Len(result_set) = MaxRows

\* C3: once an execute has succeeded on a query, every Ok result_set
\* returns the complete row sequence of the latest execution: the rows a
\* drain from the first row yields.  Stated for the runs in which the
\* native layer has reported no error since that execute.
ResultSetIsLatestExecution ==
    (/\ lastOp.op = "result_set"
     /\ lastOp.res = "Ok"
     /\ executed
     /\ clean
     /\ srv_stmt = OCI_STMT_SELECT
     /\ Wellformed)
        => result_set = collect_rows(0, 1, 0, NoFail).rows

\* C4: a new Statement is NotFetched, and after every successful execute
\* the statement is NotFetched, whatever state it was called in, so that
\* lazy_result_set may be called.
ExecuteResetsFetchState ==
    /\ lastOp.op = "new" => result_state = "NotFetched"
    /\ (lastOp.op = "execute" /\ lastOp.res = "Ok") =>
          /\ result_state = "NotFetched"
          /\ lazy_result_set(result_state).res = "Ok"

\* C4 happens: an execute succeeded on a statement that was Fetched.
ExecuteSucceededWhenFetched ==
    /\ lastOp.op = "execute"
    /\ lastOp.res = "Ok"
    /\ lastOp.pre = "Fetched"

\* C5: an execute whose statement-category read or whose native execute
\* returns a status other than Success returns an error value, and then
\* the fetch state, the cached rows and the bound values are as before the
\* call.
FailedExecuteLeavesState ==
    [][lastOp'.op = "execute" =>
          /\ (lastOp'.res = "Err") = ~NoError(calls')
          /\ lastOp'.res = "Err" =>
                /\ result_state' = result_state
                /\ result_set' = result_set
                /\ values' = values]_vars

\* C5 happens: an execute failed on a Fetched statement that holds bound
\* values and cached rows.
ExecuteFailedWhenFetched ==
    /\ lastOp.op = "execute"
    /\ lastOp.res = "Err"
    /\ lastOp.pre = "Fetched"
    /\ values # <<>>
    /\ result_set # <<>>

LazyRowsAreEagerRows ==
    (/\ lastOp.op = "next"
     /\ lastOp.res = "None"
     /\ clean
     /\ cached.filled)
        => pulled = result_set

\* C7 happens: a lazy sequence ended after MaxRows rows on a statement
\* whose cache a result_set call had filled before the latest execute.
LazyPullAfterEagerDrain ==
    /\ lastOp.op = "next"
    /\ lastOp.res = "None"
    /\ clean
    /\ cached.filled
    /\ ~cached.fresh
    /\ Len(pulled) = MaxRows
    /\ Len(srv_meta) = MaxCols

\* C8: when a row attempt of an executed statement returns (RowIter::next,
\* or each attempt of a result_set drain), every parameter handle it
\* obtained has been passed to OCIDescriptorFree exactly once, and none is
\* held when the next attempt starts.
RowAttemptReleasesHandles ==
    (executed /\ lastOp.op \in {"next", "result_set"}) =>
        HandlesBalanced(calls, {})

\* C9: when a row attempt ends with the error of a step of Column::new
\* that follows the parameter handle (the read of the wire type, of the
\* precision, of the scale or of the data size, or the define of the output
\* buffer), the handle obtained for that column has been passed to
\* OCIDescriptorFree: the last OCIParamGet of the attempt is followed by an
\* OCIDescriptorFree of its position.
ColumnNewErrorReleasesHandle ==
    (/\ lastOp.op = "next"
     /\ lastOp.res = "Err"
     /\ lastOp.err \in {"Getting column data type", "Getting column precision",
                        "Getting column scale", "Getting column data size",
                        "Defining output parameter"})
        => \E i \in 1..Len(calls) :
              /\ calls[i][1] = "OCIParamGet"
              /\ \A j \in (i + 1)..Len(calls) : calls[j][1] # "OCIParamGet"
              /\ \E j \in (i + 1)..Len(calls) :
                    calls[j] = <<"OCIDescriptorFree", calls[i][2], "Success">>

\* C10: after bind(params) returns Ok the statement holds len(params)
\* values and len(params) bind-handle slots, the i-th slot being the one
\* bound at position i, whatever bind calls came before.
BindHoldsExactlyParams ==
    (lastOp.op = "bind" /\ lastOp.res = "Ok") =>
        /\ Len(values) = Len(calls)
        /\ Len(bindings) = Len(calls)
        /\ \A i \in 1..Len(calls) :
              /\ calls[i] = <<"OCIBindByPos", i, "Success">>
              /\ bindings[i] = i


\* C11: a bind call, whether it returns Ok or an error, leaves the fetch
\* state and the cached rows as they were.
BindKeepsFetchState ==
    [][lastOp'.op = "bind" =>
          /\ result_state' = result_state
          /\ result_set' = result_set]_vars

\* C11 happens: a bind call returned an error on a Fetched statement that
\* holds cached rows.
BindFailedWhenFetched ==
    /\ lastOp.op = "bind"
    /\ lastOp.res = "Err"
    /\ lastOp.pre = "Fetched"
    /\ result_state = "Fetched"
    /\ result_set # <<>>

\* The external type Column::new resolves for the column at a position.
ExternalType(position) == determine_external_data_type(position, NoFail).value

\* C12: in the row RowIter::next returns, a column whose null indicator is
\* -1 is Null whatever its buffer holds, and any other column is what the
\* codec makes of its buffer; a set indicator never leads to a Conversion
\* error: a row attempt that ends with one has a column whose indicator is
\* not set and whose buffer the codec rejects.
NullIndicatorDecodesToNull ==
    /\ (lastOp.op = "next" /\ lastOp.res = "Row") =>
          \A c \in 1..Len(srv_meta) :
              pulled[Len(pulled)][c] =
                  IF srv_rows[cursor][c].ind = NullIndicator
                  THEN SqlNull
                  ELSE create_from_raw(srv_rows[cursor][c].buf,
                                       ExternalType(c)).value
    /\ (lastOp.op = "next" /\ lastOp.res = "Err"
           /\ lastOp.err = "Conversion") =>
          \E c \in 1..Len(srv_meta) :
              /\ srv_rows[cursor][c].ind # NullIndicator
              /\ ~create_from_raw(srv_rows[cursor][c].buf, ExternalType(c)).ok

\* C12 happens: RowIter::next returned a row whose second column has the
\* indicator set over a buffer that is no text, and whose first column is
\* decoded from its buffer.
NullColumnFetched ==
    /\ lastOp.op = "next"
    /\ lastOp.res = "Row"
    /\ Len(srv_meta) >= 2
    /\ srv_rows[cursor][2].ind = NullIndicator
    /\ ~IsUtf8(srv_rows[cursor][2].buf)
    /\ pulled[Len(pulled)][2] = SqlNull
    /\ pulled[Len(pulled)][1].variant = "Integer"


\* C13: in a row RowIter::next returns, the value of a column whose wire
\* type is NUMBER is a Float if the precision the server reports is not 0
\* and the scale is -127, and an Integer for every other pair.
NumberResolvesByPrecisionAndScale ==
    (lastOp.op = "next" /\ lastOp.res = "Row") =>
        \A c \in 1..Len(srv_meta) :
            srv_meta[c].data_type = SQLT_NUM =>
                pulled[Len(pulled)][c].variant =
                    IF srv_meta[c].precision # 0 /\ srv_meta[c].scale = -127
                    THEN "Float"
                    ELSE "Integer"

\* C13 happens: a row was fetched from a NUMBER column of scale -127 and
\* precision 0, the pair that only the precision keeps an Integer.
NumberOfPrecisionZeroFetched ==
    /\ lastOp.op = "next"
    /\ lastOp.res = "Row"
    /\ srv_meta[1].data_type = SQLT_NUM
    /\ srv_meta[1].precision = 0
    /\ srv_meta[1].scale = -127
    /\ pulled[Len(pulled)][1].variant = "Integer"


\* C16: the SqlValue of an i64 has byte length 8 and the wire type of an
\* integer, and create_from_raw on its 8 bytes, read little end first,
\* gives Integer of the i64; whatever the state, the decoding of these
\* bytes is that value.
IntegerRoundTrips ==
    /\ (native.t = "i64" /\ sql_value # NoValue) =>
            /\ size(sql_value) = 8
            /\ as_oci_data_type(sql_value) = "SqlInt"
            /\ Len(as_oci_ptr(sql_value)) = 8
            /\ created # NotDecoded =>
                    /\ created.ok /\ ~created.panic
                    /\ created.value = [variant |-> "Integer", v |-> native.v]
    /\ \A i \in NativeIntegers :
            create_from_raw(ToBytesLE(i, 8), "SqlInt").value.v = <<i>>

\* C16 happens: a negative i64 of more than two bytes was encoded and
\* decoded again.
NegativeIntegerDecoded ==
    /\ native.t = "i64"
    /\ native.v[1] < -65536
    /\ created # NotDecoded
    /\ created.value.variant = "Integer"


\* C14: a Date<Utc> or DateTime<Utc> made a SqlValue and decoded from its
\* bytes is the value that was encoded, for every value of the native type;
\* the century byte and the year byte of the encoding each lie in 0..255
\* and decode to the year that was encoded.
DateRoundTrips ==
    /\ (native.t \in {"Date", "DateTime"} /\ sql_value # NoValue) =>
            /\ sql_value.raw[1] = Quot(native.v[1], 100) + 100
            /\ sql_value.raw[2] = (native.v[1] - 100 * Quot(native.v[1], 100)) + 100
            /\ sql_value.raw[1] \in 0..255
            /\ sql_value.raw[2] \in 0..255
            /\ convert_century(sql_value.raw[1]) + convert_year(sql_value.raw[2])
                    = native.v[1]
    /\ (native.t \in {"Date", "DateTime"} /\ created # NotDecoded) =>
            /\ created.ok /\ ~created.panic
            /\ created.value.v = native.v
            /\ created.value.raw = sql_value.raw


\* C15: a DateTime<FixedOffset> made a SqlValue and decoded from its 13
\* bytes is the same instant at the same offset with the same 13 bytes, at
\* every offset of the native type: east, west and none, with and without
\* leftover minutes.
DateTimeTzRoundTrips ==
    (native.t = "DateTimeTz" /\ created # NotDecoded) =>
        /\ created.ok /\ ~created.panic
        /\ created.value.v = native.v
        /\ created.value.raw = sql_value.raw


\* C17: a Date encodes to the 7 bytes year/100 + 100, year mod 100 + 100,
\* month, day, 1, 1, 1 (2006-10-01 to 120, 106, 10, 1, 1, 1, 1); a
\* Timestamp encodes the same four bytes, then hour, minute and second each
\* plus 1, then the nanoseconds as 4 bytes, big end first.
DateEncodesByLayout ==
    LET year == native.v[1]
        head == <<Quot(year, 100) + 100, (year - 100 * Quot(year, 100)) + 100,
                  native.v[2], native.v[3]>>
        nano == native.v[7]
    IN  /\ (native.t = "Date" /\ sql_value # NoValue) =>
                sql_value.raw = head \o <<1, 1, 1>>
        /\ (native.t = "Date" /\ sql_value # NoValue
                /\ native.v = <<2006, 10, 1>>) =>
                sql_value.raw = <<120, 106, 10, 1, 1, 1, 1>>
        /\ (native.t = "DateTime" /\ sql_value # NoValue) =>
                sql_value.raw =
                    head \o <<native.v[4] + 1, native.v[5] + 1, native.v[6] + 1>>
                         \o <<nano \div 16777216, (nano \div 65536) % 256,
                              (nano \div 256) % 256, nano % 256>>


\* C18: a DateTime<FixedOffset> encodes its first 11 bytes as the Timestamp
\* of its UTC instant, whatever the offset, and its last 2 bytes as the
\* whole hours of the offset plus 20 and its leftover minutes plus 60, both
\* with the sign of the offset (+5:30 gives 25, 90); decoding the 13 bytes
\* gives the UTC instant of the first 11 bytes at that offset.
DateTimeTzEncodesByLayout ==
    LET offset == native.v[8]
        hours == Quot(offset, 3600)
        minutes == Quot(offset - 3600 * hours, 60)
        utc == SubSeq(native.v, 1, 7)
    IN  /\ (native.t = "DateTimeTz" /\ sql_value # NoValue) =>
                /\ SubSeq(sql_value.raw, 1, 11) = create_raw_from_datetime(utc)
                /\ SubSeq(sql_value.raw, 12, 13) = <<hours + 20, minutes + 60>>
                /\ offset = 19800 => SubSeq(sql_value.raw, 12, 13) = <<25, 90>>
        /\ (native.t = "DateTimeTz" /\ created # NotDecoded) =>
                /\ ~created.panic
                /\ SubSeq(created.value.v, 1, 7) =
                        create_datetime_from_raw(SubSeq(sql_value.raw, 1, 11)).v
                /\ created.value.v[8] = 3600 * hours + 60 * minutes


\* C19: create_from_raw on a well-formed buffer of variable-length text
\* gives the text of the buffer without its trailing padding; leading and
\* interior characters, whitespace included, are kept.
VarCharKeepsLeadingWhitespace ==
    (native.t = "SqlVarChar" /\ IsUtf8(native.v) /\ created # NotDecoded) =>
        /\ created.ok /\ ~created.panic
        /\ created.value = [variant |-> "VarChar", v |-> TrimEnd(native.v)]


\* The last fetch of the last call returned a row, and the row holds a text
\* that is not NULL and not well-formed.
IllFormedRowFetched ==
    /\ lastOp.op \in {"next", "result_set"}
    /\ NoError(calls)
    /\ FetchStatuses(calls) # <<>>
    /\ FetchStatuses(calls)[Len(FetchStatuses(calls))] = "Success"
    /\ \E c \in 1..Len(srv_meta) :
            /\ srv_meta[c].data_type = SQLT_CHR
            /\ srv_rows[cursor][c].ind # NullIndicator
            /\ ~IsUtf8(srv_rows[cursor][c].buf)

\* C20: create_from_raw on a buffer of variable-length or fixed-length text
\* that is not well-formed returns the Conversion error: no panic and no
\* text value; a result_set() or a RowIter::next that fetched such a row
\* with no native error returns that error.
InvalidTextIsConversionError ==
    /\ \A sql_type \in {"SqlVarChar", "SqlChar"}, data \in TextBuffers :
            ~IsUtf8(data) =>
                /\ ~create_from_raw(data, sql_type).ok
                /\ ~create_from_raw(data, sql_type).panic
                /\ create_from_raw(data, sql_type).value.variant
                        \notin {"VarChar", "Char"}
    /\ IllFormedRowFetched =>
            /\ lastOp.res = "Err"
            /\ lastOp.err = "Conversion"
            /\ life = "live"

\* C20 happens: result_set() drained up to a row of ill-formed text and
\* returned an error.
ResultSetFetchedIllFormedRow ==
    /\ IllFormedRowFetched
    /\ lastOp.op = "result_set"
    /\ lastOp.res = "Err"


\* C21: an execute() of a statement whose category the native layer reports
\* with a code outside those of StatementType, and a row attempt
\* (RowIter::next or result_set()) over a column whose wire type it reports
\* with a code outside those of OciDataType, return an error value and do
\* not panic, when every native call returned Success.
UnknownCodeIsAnError ==
    /\ (lastOp.op = "execute" /\ NoError(calls)
            /\ srv_stmt \notin OCI_STMT_UNKNOWN..OCI_STMT_DECLARE) =>
            lastOp.res = "Err" /\ life = "live"
    /\ (lastOp.op \in {"next", "result_set"} /\ calls # <<>> /\ NoError(calls)
            /\ \E c \in 1..Len(srv_meta) :
                    OciDataTypeFrom(srv_meta[c].data_type) = "Panic") =>
            lastOp.res = "Err" /\ life = "live"


\* C22: value::<i64>() is Some(i) for Integer(i) and None for every other
\* variant, Null included; value::<f64>() and the conversions to Date<Utc>,
\* DateTime<Utc> and DateTime<FixedOffset> are Some, of the payload, for
\* their own variant only; value::<String>() is Some for every variant and
\* the decimal text for an Integer: "42" for Integer(42).
ValueConvertsOwnVariant ==
    LET from == converted.from
        result == converted.result
        own(variant) ==
            /\ result.some = (from.variant = variant)
            /\ result.some => result.v = from.v
    IN  converted # NotConverted =>
            /\ converted.target = "i64" => own("Integer")
            /\ converted.target = "f64" => own("Float")
            /\ converted.target = "Date" => own("Date")
            /\ converted.target = "DateTime" => own("Timestamp")
            /\ converted.target = "DateTimeTz" => own("TimestampTz")
            /\ converted.target = "String" =>
                    /\ result.some
                    /\ from = [variant |-> "Integer", v |-> <<42>>] =>
                            result.v = <<52, 50>>
                    /\ from = [variant |-> "Integer", v |-> <<-256>>] =>
                            result.v = <<45, 50, 53, 54>>

\* C22 happens: a Null was asked for an i64 and gave None.
NullAskedForInteger ==
    /\ converted.target = "i64"
    /\ converted.from = SqlNull
    /\ ~converted.result.some


\* C23: the text Display makes of a server error is the description of the
\* action that failed followed by one block for every record OCIErrorGet
\* handed out, in the order it handed them out, the k-th block carrying the
\* number k, the code and the message of the k-th record; nothing else is
\* in the text, for any number of records.
DisplayListsEveryRecord ==
    LET n == Len(native.replies)
        block(k) ==
            ErrorNumberLabel \o DecimalText(k)
            \o ErrorCodeLabel \o DecimalText(error_record.records[k][1])
            \o ErrorTextLabel \o error_record.records[k][2]
        start[k \in 1..(n + 1)] ==
            IF k = 1
            THEN Len(native.v)
            ELSE start[k - 1] + Len(block(k - 1))
    IN  rendered # NotRendered =>
            /\ Len(error_record.records) = n
            /\ \A k \in 1..n :
                    /\ error_record.records[k][1] = native.replies[k].code
                    /\ native.replies[k].status = "Success" =>
                            error_record.records[k][2] = native.replies[k].message
            /\ Len(rendered) = start[n + 1]
            /\ SubSeq(rendered, 1, Len(native.v)) = native.v
            /\ \A k \in 1..n :
                    SubSeq(rendered, start[k] + 1, start[k + 1]) = block(k)

\* C23 happens: an error of MaxRecords records, not all alike, was rendered.
ManyRecordsRendered ==
    /\ rendered # NotRendered
    /\ Len(error_record.records) = MaxRecords
    /\ error_record.records[1] # error_record.records[MaxRecords]


CommitKeepsStatement ==
    /\ [](Callable => ENABLED Commit)
    /\ [][lastOp'.op = "commit" =>
            /\ result_state' = result_state
            /\ result_set' = result_set
            /\ values' = values
            /\ lastOp'.res \in {"Ok", "Err"}
            /\ life' = life]_vars

\* C25 happens: a commit failed on a Fetched statement that holds values.
CommitFailedWhenFetched ==
    /\ lastOp.op = "commit"
    /\ lastOp.res = "Err"
    /\ lastOp.pre = "Fetched"
    /\ result_state = "Fetched"
    /\ values # <<>>


\* C26: a result_set() called in NotFetched that returns an error leaves
\* the statement NotFetched, and the result_set() that follows it does not
\* return Ok unless the cache was filled from this execution.
FailedDrainStaysNotFetched ==
    /\ []((/\ lastOp.op = "result_set"
           /\ lastOp.pre = "NotFetched"
           /\ lastOp.res = "Err") => result_state = "NotFetched")
    /\ [][(/\ lastOp.op = "result_set"
           /\ lastOp.pre = "NotFetched"
           /\ lastOp.res = "Err"
           /\ lastOp'.op = "result_set"
           /\ lastOp'.res = "Ok") => cached'.fresh]_vars


\* C27: once a pull of a RowIter has returned None or an error item, every
\* later pull of that RowIter returns None and issues no native call.
RowIterEndsForGood ==
    [][(/\ lastOp.op = "next"
        /\ lastOp.res \in {"None", "Err"}
        /\ lastOp'.op = "next")
            => (lastOp'.res = "None" /\ calls' = <<>>)]_vars


\* The native calls of Column::new.
DescriptorCalls ==
    {"OCIParamGet", "OCIAttrGet:DataType", "OCIAttrGet:Precision",
     "OCIAttrGet:Scale", "OCIAttrGet:DataSize", "OCIDefineByPos"}

\* C28: the native calls of one row attempt are, in this order: the read
\* of the column count, the calls of the column descriptors for positions
\* 1..N in increasing order, each descriptor from its parameter handle to
\* the define of its output, then at most one fetch, issued only when all N
\* outputs are defined, and then the releases of the descriptors; a row is
\* returned only after a fetch that returned Success, and its values are
\* decoded from the buffers that fetch filled.
RowAttemptIsOrdered ==
    LET n == Len(srv_meta)
        at(name) == {i \in 1..Len(calls) : calls[i][1] = name}
        fetches == at("OCIStmtFetch2")
        described == {i \in 1..Len(calls) : calls[i][1] \in DescriptorCalls}
    IN  (lastOp.op = "next" /\ calls # <<>>) =>
            /\ at("OCIAttrGet:ParamCount") = {1}
            /\ Cardinality(fetches) <= 1
            /\ \A i, j \in described : i < j => calls[i][2] <= calls[j][2]
            /\ \A i \in described :
                    /\ calls[i][2] \in 1..n
                    /\ calls[i][1] = "OCIParamGet" =>
                            \A j \in described :
                                calls[j][2] = calls[i][2] => i <= j
                    /\ calls[i][1] = "OCIDefineByPos" =>
                            \A j \in described :
                                calls[j][2] = calls[i][2] => j <= i
            /\ \A f \in fetches :
                    /\ \A c \in 1..n :
                            \E i \in 1..(f - 1) :
                                calls[i] = <<"OCIDefineByPos", c, "Success">>
                    /\ \A i \in described : i < f
                    /\ \A i \in at("OCIDescriptorFree") : f < i
            /\ lastOp.res = "Row" =>
                    /\ \E f \in fetches : calls[f][3] = "Success"
                    /\ pulled[Len(pulled)] =
                            [c \in 1..n |->
                                create_sql_value(
                                    [handle |-> c,
                                     sql_type |-> ExternalType(c),
                                     buffer_size |->
                                         define_output_parameter(
                                             c, srv_meta[c].data_size,
                                             ExternalType(c), NoFail).buffer_size],
                                    srv_rows[cursor][c]).value]
            /\ (\A f \in fetches : calls[f][3] # "Success") =>
                    lastOp.res # "Row"

\* C28 happens: a pull over MaxCols columns returned a row.
RowOfAllColumnsPulled ==
    /\ lastOp.op = "next"
    /\ lastOp.res = "Row"
    /\ Len(srv_meta) = MaxCols
    /\ Len(pulled[Len(pulled)]) = MaxCols


\* The description of the error of each native call of the descriptors.
StepDescription(name) ==
    CASE name = "OCIAttrGet:ParamCount" -> "Getting number of columns"
      [] name = "OCIParamGet" -> "Allocating parameter handle"
      [] name = "OCIAttrGet:DataType" -> "Getting column data type"
      [] name = "OCIAttrGet:Precision" -> "Getting column precision"
      [] name = "OCIAttrGet:Scale" -> "Getting column scale"
      [] name = "OCIAttrGet:DataSize" -> "Getting column data size"
      [] name = "OCIDefineByPos" -> "Defining output parameter"

\* C29: when the read of the column count or a native call of a column
\* descriptor returns a status other than Success in a row attempt, the
\* attempt returns an error with the description of that step, no
\* descriptor call follows the one that failed, no fetch is issued, and the
\* cursor of the server stays where it was.
DescriptorFailureStopsAttempt ==
    [][\A i \in 1..Len(calls') :
          (/\ lastOp'.op = "next"
           /\ calls'[i][1] \in DescriptorCalls \cup {"OCIAttrGet:ParamCount"}
           /\ calls'[i][3] # "Success") =>
              /\ lastOp'.res = "Err"
              /\ lastOp'.err = StepDescription(calls'[i][1])
              /\ \A j \in (i + 1)..Len(calls') :
                      calls'[j][1] = "OCIDescriptorFree"
              /\ cursor' = cursor
              /\ pulled' = pulled]_vars

\* C29 happens: the define of the output of the last column failed in a
\* pull, after the descriptors of the columns before it were built.
LastDescriptorFailed ==
    /\ lastOp.op = "next"
    /\ lastOp.res = "Err"
    /\ Len(srv_meta) = MaxCols
    /\ executed /\ cursor < Len(srv_rows)
    /\ \E i \in 1..Len(calls) : calls[i] = <<"OCIDefineByPos", MaxCols, "Error">>


\* C30: bind() issues its native bind calls for the positions 1, 2, ... in
\* order and stops at the first that returns a status other than Success:
\* it returns the server error described as "Binding parameter" and issues
\* no bind call for a later parameter; with no such status it binds every
\* parameter and returns Ok.
BindStopsAtFirstFailure ==
    lastOp.op = "bind" =>
        /\ Len(calls) <= lastOp.params
        /\ \A i \in 1..Len(calls) :
                /\ calls[i][1] = "OCIBindByPos"
                /\ calls[i][2] = i
                /\ calls[i][3] # "Success" =>
                        /\ i = Len(calls)
                        /\ lastOp.res = "Err"
                        /\ lastOp.err = "Binding parameter"
        /\ (\A i \in 1..Len(calls) : calls[i][3] = "Success") =>
                /\ lastOp.res = "Ok"
                /\ Len(calls) = lastOp.params

\* C30 happens: the bind call of the first of MaxParams parameters failed.
FirstOfManyBindsFailed ==
    /\ lastOp.op = "bind"
    /\ lastOp.params = MaxParams
    /\ lastOp.res = "Err"
    /\ calls = << <<"OCIBindByPos", 1, "Error">> >>


(***************************************************************************)
(* C31: the bound values are not moved once a pointer was handed out       *)
(***************************************************************************)

\* A pointer still addresses its value: the value is in the list, and the
\* list did not take a new buffer since the pointer was made.
Addresses(ptr) ==
    /\ ptr.index <= Len(values)
    /\ ptr.moved = 0

\* C31: bind reserves room for all its parameters before it appends the
\* first, whatever capacity the list had, so every pointer it hands to
\* OCIBindByPos addresses its value in every later state up to the next
\* bind, execute included; and only bind changes the list.
BoundValuesStayInPlace ==
    /\ [](/\ Len(handed) = Len(values)
          /\ \A i \in 1..Len(handed) :
                Addresses(handed[i]) /\ handed[i].room)
    /\ [][(values' # values \/ handed' # handed) => lastOp'.op = "bind"]_vars

\* An execute after a bind of several numbers, which the list holds in
\* its own buffer.
ExecuteAfterBindOfIntegers ==
    /\ lastOp.op = "execute"
    /\ Len(handed) >= 2
    /\ \A i \in 1..Len(handed) : handed[i].region = "vec"


(***************************************************************************)
(* C32: a Row holds one value per column and is not changed afterwards     *)
(***************************************************************************)

\* The value Column::create_sql_value makes of column c of server row r.
DecodedCell(r, c) ==
    create_sql_value(
        [handle |-> c, sql_type |-> ExternalType(c),
         buffer_size |->
             define_output_parameter(c, srv_meta[c].data_size,
                                     ExternalType(c), NoFail).buffer_size],
        srv_rows[r][c]).value

\* A Row of server row r: one value per column, in column order.
IsRowOf(row, r) ==
    /\ Len(row) = Len(srv_meta)
    /\ \A c \in 1..Len(srv_meta) : row[c] = DecodedCell(r, c)

\* C32: every Row a fetch returned, from RowIter::next or in the set of
\* result_set, holds exactly as many values as the statement has columns,
\* the value at index i being the decoded value of column i + 1 of the row
\* the fetch stood at (the rows of an iterator are rows of the server in
\* cursor order, those of a set are the rows the drain passed); and a Row
\* that was handed out keeps its values.
RowsAreWholeAndFixed ==
    /\ [](/\ iter =>
                \E at \in [1..Len(pulled) -> 1..cursor] :
                    /\ \A j, k \in 1..Len(pulled) : j < k => at[j] < at[k]
                    /\ \A k \in 1..Len(pulled) : IsRowOf(pulled[k], at[k])
          /\ (lastOp.op = "result_set" /\ lastOp.res = "Ok"
                  /\ lastOp.pre = "NotFetched") =>
                \A k \in 1..Len(result_set) :
                    IsRowOf(result_set[k], cursor - Len(result_set) + k)
          /\ \A k \in 1..Len(pulled) : Len(pulled[k]) = Len(srv_meta)
          /\ \A k \in 1..Len(result_set) :
                Len(result_set[k]) = Len(srv_meta))
    /\ [][/\ \A k \in 1..Len(pulled) :
                Len(pulled') >= k => pulled'[k] = pulled[k]
          /\ lastOp'.op # "result_set" => result_set' = result_set]_vars

\* Both ways of fetching returned rows of MaxCols values: a set of MaxRows
\* rows, the NULL text of row 2 included.
WholeSetOfRowsFetched ==
    /\ lastOp.op = "result_set"
    /\ lastOp.res = "Ok"
    /\ lastOp.pre = "NotFetched"
    /\ Len(result_set) = MaxRows
    /\ Len(srv_meta) = MaxCols
    /\ result_set[2][2].variant = "Null"


(***************************************************************************)
(* C33: the execution count of execute()                                   *)
(***************************************************************************)

\* C33: execute() reads the statement category first and issues no
\* OCIStmtExecute when that read fails; the one OCIStmtExecute it issues
\* otherwise carries the execution count 0 for a Select and 1 for each of
\* the nine other categories of StatementType.
ExecuteCountsByCategory ==
    LET executes == {i \in 1..Len(calls) : calls[i][1] = "OCIStmtExecute"}
    IN  lastOp.op = "execute" =>
            /\ Len(calls) >= 1
            /\ calls[1][1] = "OCIAttrGet:StmtType"
            /\ executes \subseteq {2}
            /\ calls[1][3] # "Success" =>
                    /\ executes = {}
                    /\ lastOp.res = "Err"
                    /\ lastOp.err = "Getting statement type"
            /\ (calls[1][3] = "Success"
                    /\ srv_stmt \in OCI_STMT_UNKNOWN..OCI_STMT_DECLARE) =>
                    /\ executes = {2}
                    /\ calls[2][2] = IF srv_stmt = OCI_STMT_SELECT THEN 0 ELSE 1

\* A statement of unknown category was executed once.
UnknownCategoryExecutedOnce ==
    /\ lastOp.op = "execute"
    /\ lastOp.res = "Ok"
    /\ srv_stmt = OCI_STMT_UNKNOWN
    /\ calls[2] = <<"OCIStmtExecute", 1, "Success">>


(***************************************************************************)
(* C34: the length of an output buffer                                     *)
(***************************************************************************)

\* C34: the output buffer of a column is as long as the declared byte width
\* of the column for variable- and fixed-length text, and has the fixed
\* width of the resolved type otherwise: 8 for Integer and Float, 7 for
\* Date, 11 for Timestamp, 13 for TimestampTz; OCIDefineByPos is passed
\* that same length.
OutputBufferHasColumnWidth ==
    \A i \in 1..Len(outputs) :
        LET column == outputs[i]
        IN  /\ column.handle = i
            /\ column.sql_type \in {"SqlVarChar", "SqlChar"} =>
                    column.buffer_size = srv_meta[i].data_size
            /\ column.sql_type \in {"SqlInt", "SqlFloat"} =>
                    column.buffer_size = 8
            /\ column.sql_type = "SqlDate" => column.buffer_size = 7
            /\ column.sql_type = "SqlTimestamp" => column.buffer_size = 11
            /\ column.sql_type = "SqlTimestampTz" => column.buffer_size = 13
            /\ column.sql_type \in {"SqlVarChar", "SqlChar", "SqlInt",
                                    "SqlFloat", "SqlDate", "SqlTimestamp",
                                    "SqlTimestampTz"}
            /\ column.value_sz = column.buffer_size

\* The output of a fixed-length text column was defined and a row fetched
\* into it.
CharColumnDefined ==
    /\ lastOp.op = "next"
    /\ lastOp.res = "Row"
    /\ Len(outputs) = 1
    /\ outputs[1].sql_type = "SqlChar"
    /\ outputs[1].buffer_size = TextWidth


(***************************************************************************)
(* C35 - C37: the bytes of a temporal value                                *)
(***************************************************************************)

\* The raw bytes of a temporal SqlValue are the encoding of its native value.
RawIsEncodingOfNative(val) ==
    /\ val.variant = "Date" => val.raw = create_raw_from_date(val.v)
    /\ val.variant = "Timestamp" => val.raw = create_raw_from_datetime(val.v)
    /\ val.variant = "TimestampTz" =>
            val.raw = create_raw_from_datetime_with_timezone(val.v)

\* C35: in every Date, Timestamp and TimestampTz the program creates, from
\* a native value or from the bytes of the wire, the raw bytes are the
\* encoding of the native value; a value that was created is not changed.
EncodingFollowsNative ==
    /\ [](/\ sql_value # NoValue => RawIsEncodingOfNative(sql_value)
          /\ (created.ok /\ ~created.panic) =>
                RawIsEncodingOfNative(created.value))
    /\ [][/\ sql_value # NoValue => sql_value' = sql_value
          /\ created # NotDecoded => created' = created]_vars

\* A Date was decoded from a buffer that holds a time of day.
DateOfTimedBufferDecoded ==
    /\ native.t = "SqlDate"
    /\ native.v[5] = 20
    /\ created.ok /\ ~created.panic
    /\ created.value.variant = "Date"
    /\ created.value.raw # native.v

\* A buffer of a temporal column as the server lays it out: a day of the
\* calendar, hour, minute and second bytes one above their value, less than
\* a second of nanoseconds, an offset within -12:00..+14:00 whose minutes
\* have the sign of its hours.
WellFormedTemporal(t, b) ==
    /\ ValidDate(convert_century(b[1]) + convert_year(b[2]), b[3], b[4])
    /\ b[5] \in 1..24 /\ b[6] \in 1..60 /\ b[7] \in 1..60
    /\ t \in {"SqlTimestamp", "SqlTimestampTz"} =>
            convert_nano(SubSeq(b, 8, 11)) < 1000000000
    /\ t = "SqlTimestampTz" =>
            /\ b[12] \in 8..34 /\ b[13] \in 1..119
            /\ b[12] > 20 => b[13] >= 60
            /\ b[12] < 20 => b[13] <= 60
            /\ b[12] \in {8, 34} => b[13] = 60

\* C36: the value decoded from a well-formed buffer of 7, 11 or 13 bytes
\* carries exactly the bytes of the buffer, a Date buffer with a time of day
\* other than midnight included.
DecodedCarriesWireBytes ==
    (native.t \in {"SqlDate", "SqlTimestamp", "SqlTimestampTz"}
        /\ WellFormedTemporal(native.t, native.v)
        /\ created # NotDecoded) =>
        /\ created.ok /\ ~created.panic
        /\ created.value.raw = native.v

\* C37: decoding a temporal buffer returns a value or the Conversion error
\* for every content of the buffer; it does not abort.
TemporalDecodingIsTotal ==
    (native.t \in {"SqlDate", "SqlTimestamp", "SqlTimestampTz"}
        /\ created # NotDecoded) =>
        ~created.panic


(***************************************************************************)
(* C39: get_error and the statuses of OCIErrorGet                          *)
(***************************************************************************)

\* The number of leading answers of status Success.
RECURSIVE SuccessPrefix(_)
SuccessPrefix(replies) ==
    IF replies = <<>> \/ Head(replies).status # "Success"
    THEN 0
    ELSE 1 + SuccessPrefix(Tail(replies))

\* C39: get_error stops at the first answer of OCIErrorGet whose status is
\* not Success, whichever of NoData, Error and InvalidHandle it is, and
\* returns the records of the answers before it.
GetErrorStopsAtFirstFailure ==
    (native.t = "get_error" /\ error_record # NoRecord) =>
        /\ Len(error_record.records) = SuccessPrefix(native.replies)
        /\ \A k \in 1..SuccessPrefix(native.replies) :
                error_record.records[k] =
                    <<native.replies[k].code, native.replies[k].message>>


(***************************************************************************)
(* C38: no Null reaches the native bind call                               *)
(***************************************************************************)

\* C38: every value bind() hands to OCIBindByPos is of a concrete variant,
\* whichever of the provided conversions made it (of String, &str, i64,
\* f64, Date<Utc>, DateTime<Utc>, DateTime<FixedOffset>): none is Null, so
\* the pointer, the length and the type tag of the call are those of the
\* variant and bind() does not panic.
BindHandsNoNull ==
    /\ \A i \in 1..Len(values) :
            /\ values[i].variant \in {"VarChar", "Integer", "Float", "Date",
                                      "Timestamp", "TimestampTz"}
            /\ as_oci_ptr(values[i]) # <<-1>>
            /\ size(values[i]) # -1
            /\ as_oci_data_type(values[i]) # "Panic"
    /\ lastOp.op = "bind" =>
            /\ lastOp.res # "Panic"
            /\ Len(calls) = Len(values)

\* A bind of a DateTime<FixedOffset> and a &str went through.
ZonedTimeAndTextBound ==
    /\ lastOp.op = "bind"
    /\ lastOp.res = "Ok"
    /\ Len(values) = 2
    /\ values[1].variant = "TimestampTz"
    /\ values[2].variant = "VarChar"
    /\ calls[2] = <<"OCIBindByPos", 2, "Success">>

===========================================================================
